---- MODULE Spec2Model ----
(***************************************************************************)
(* Interactive geometry editor: the tool registry, the five entity tools,  *)
(* the hit detector, the Move and Delete meta-tools, bulk clear and the    *)
(* GeoJSON import, as state machines over the objects the code allocates.  *)
(*                                                                         *)
(* Objects live in `heap` (a reference is an index into it), so that the   *)
(* aliasing the code relies on (a draft that becomes a committed item, the *)
(* Move tool's _target, the closure of a pending elevation lookup) is the  *)
(* aliasing of the model.                                                  *)
(***************************************************************************)
EXTENDS Integers, Sequences, FiniteSets, TLC

VARIABLES
  tools,              \* ToolManager.tools: insertion-ordered Map, a sequence of [name, tool]
  registrationOrder,  \* ToolManager.registrationOrder
  activeTool,         \* ToolManager.activeTool (a name, or NoName for null)
  currentMode,        \* AppState.currentMode
  emitted,            \* the EventBus.emit calls made by the last operation, in order
  ret,                \* what the last operation returned ("true", "false", "undefined")
  threw,              \* TRUE when the last operation ended by throwing
  lastOp,             \* name of the last operation (history)
  call,               \* arguments of the last direct API call (<<>> for a UI event)
  styles,             \* StyleManager.styles
  heap,               \* every object allocated so far; a reference is its index
  items,              \* per entity tool: BaseTool.items (references, in collection order)
  draft,              \* per entity tool: BaseTool._draft (a reference or NoObj)
  hover,              \* PolylineTool._hover / PolygonTool._hover
  moveTarget,         \* MoveTool._target
  moveOrigin,         \* MoveTool._origin
  moveStart,          \* MoveTool._start
  drag,               \* history: the Move pointer-down in progress and the moves since
  lastDrag,           \* history: the drag that the last MoveTool.finish ended
  pending,            \* elevation lookups in flight (the promises of getElevation)
  tolerance,          \* HitDetector.tolerance
  listeners,          \* EventBus.listeners: per event the array of callbacks, in order
  timer,              \* debounce's timer: the timeout set by the latest call, or NoTimer
  clock,              \* the time, in milliseconds
  log,                \* history: calls made, lookups issued and callbacks run, in order
  alerts              \* the alert() messages of the last operation

regVars   == <<tools, registrationOrder, activeTool, currentMode>>
toolVars  == <<heap, items, draft, hover>>
moveVars  == <<moveTarget, moveOrigin, moveStart, drag, lastDrag>>
vars == <<tools, registrationOrder, activeTool, currentMode, emitted, ret, threw,
          lastOp, call, styles, heap, items, draft, hover, moveTarget, moveOrigin,
          moveStart, drag, lastDrag, pending, tolerance, listeners, timer, clock, log,
          alerts>>
utilVars  == <<listeners, timer, clock, log>>

\* no timeout set
NoTimer == <<>>

-----------------------------------------------------------------------------
(* Bounds of the model *)

\* the pointer moves along the parallel lat = 0, over lng in 0..MaxCoord
MaxCoord == 1
\* at most MaxObj objects (entities and drafts) are ever allocated
MaxObj == 2
\* a Polyline/Polygon draft takes at most MaxPts vertices
MaxPts == 3

-----------------------------------------------------------------------------
(* JavaScript values *)

\* a null object reference (this._draft = null, this._target = null)
NoObj == 0
\* null / undefined for names and coordinates
NoName == "null"
NoCoord == <<>>
\* a null elevation is <<>>, a resolved elevation e is <<e>>
NullElev == <<>>
Undefined == "undefined"

LatLng(a, b) == [lat |-> a, lng |-> b]
Pointers == {LatLng(0, b) : b \in 0..MaxCoord}

Has(o, f) == f \in DOMAIN o

\* { ...a, ...b } : object spread, later properties win
Spread(a, b) == [f \in (DOMAIN a) \cup (DOMAIN b) |-> IF f \in DOMAIN b THEN b[f] ELSE a[f]]

EntityTools == {"points", "line", "polygon", "sector", "text"}

-----------------------------------------------------------------------------
(* core/StyleManager.js *)

DefaultStyles ==
  [ points  |-> [color |-> "black", symbol |-> "circle"],
    line    |-> [color |-> "black", style |-> "solid"],
    polygon |-> [color |-> "green", alpha |-> 25],      \* alpha in hundredths (0.25)
    sector  |-> [color |-> "black", angle |-> 60],
    text    |-> [value |-> <<>>, color |-> "black", size |-> 14] ]   \* a string is its characters

\* getStyle(toolName): a shallow copy of the tool's style ({} for an unknown tool)
GetStyle(toolName) ==
  IF toolName \in DOMAIN styles THEN styles[toolName] ELSE <<>>

\* BaseTool.getStyleSnapshot
GetStyleSnapshot(toolName) == GetStyle(toolName)

\* updateProperty(toolName, property, value) / updateFromUI
UpdateProperty(toolName, property, value) ==
  IF toolName \in DOMAIN styles
    THEN [styles EXCEPT ![toolName] = Spread(@, [p \in {property} |-> value])]
    ELSE styles

\* setStyle(toolName, updates): Object.assign onto the existing style
SetStyle(toolName, updates) ==
  IF toolName \in DOMAIN styles
    THEN [styles EXCEPT ![toolName] = Spread(styles[toolName], updates)]
    ELSE styles

\* reset(toolName): a fresh copy of the tool's defaults
Reset(toolName) ==
  IF toolName \in DOMAIN DefaultStyles
    THEN [t \in (DOMAIN styles) \cup {toolName} |->
            IF t = toolName THEN DefaultStyles[toolName] ELSE styles[t]]
    ELSE styles

\* resetAll(): a deep copy of the defaults
ResetAll == DefaultStyles

-----------------------------------------------------------------------------
(* utils/elevation.js, utils/geometry.js: results the tools store *)

\* what a lookup can resolve to: null (network error, non-success response) or a value
ElevResults == {NullElev, <<7>>}

\* GeoUtils.distance(a, b) and GeoUtils.bearing(a, b): the haversine distance and the
\* initial bearing are real-valued; the model keeps the application itself (which
\* function, on which arguments, in which order) as the value.
Num(n) == <<"num", n>>
Distance(a, b) == <<"distance", a.lat, a.lng, b.lat, b.lng>>
Bearing(a, b) == <<"bearing", a.lat, a.lng, b.lat, b.lng>>

\* one turn of pointInPolygon's loop: does the ray from point towards greater lng
\* cross the edge from polygon[j] to polygon[i]?  The quotient
\* (xj - xi) * (point.lat - yi) / (yj - yi) is compared exactly, multiplied out by
\* yj - yi (which is not 0 when the first conjunct holds)
Intersect(point, polygon, i, j) ==
  LET xi == polygon[i].lng
      yi == polygon[i].lat
      xj == polygon[j].lng
      yj == polygon[j].lat
  IN /\ (yi > point.lat) # (yj > point.lat)
     /\ IF yj - yi > 0
          THEN (point.lng - xi) * (yj - yi) < (xj - xi) * (point.lat - yi)
          ELSE (point.lng - xi) * (yj - yi) > (xj - xi) * (point.lat - yi)

\* the loop of pointInPolygon from index i on, j the index before it
RECURSIVE PointInPolygonFrom(_, _, _, _, _)
PointInPolygonFrom(point, polygon, i, j, inside) ==
  IF i > Len(polygon) THEN inside
  ELSE PointInPolygonFrom(point, polygon, i + 1, i,
                          IF Intersect(point, polygon, i, j) THEN ~inside ELSE inside)

\* the loop with j starting beside i: the edge closing the ring is never looked at
PointInPolygonOpen(point, polygon) ==
  PointInPolygonFrom(point, polygon, 1, 1, FALSE)

\* GeoUtils.pointInPolygon(point, polygon): i from 0, j from polygon.length - 1
PointInPolygon(point, polygon) ==
  PointInPolygonFrom(point, polygon, 1, Len(polygon), FALSE)

\* the loop of sectorCoordinates from offset a on: project(center, radius, bearing + a)
\* for a = -angle/2, -angle/2 + 3, ... while a <= angle/2.  Offsets and bearings are
\* kept doubled (a2 = 2a, step 6) so that halves of odd angles stay integers; the
\* projection is kept as the application itself, as [lng, lat] of its result
RECURSIVE SectorArc(_, _)
SectorArc(sector, a2) ==
  IF a2 > sector.angle THEN <<>>
  ELSE << <<"project", sector.center.lat, sector.center.lng, sector.radius,
            2 * sector.bearing + a2>> >> \o SectorArc(sector, a2 + 6)

\* GeoUtils.sectorCoordinates(sector): the center, the arc, the center again
SectorCoordinates(sector) ==
  << <<sector.center.lng, sector.center.lat>> >>
    \o SectorArc(sector, 0 - sector.angle)
    \o << <<sector.center.lng, sector.center.lat>> >>

-----------------------------------------------------------------------------
(* tools/BaseTool.js and the five entity tools.  Each operator is one method *)
(* of the tool named by its prefix, acting on that tool's items and _draft.  *)

\* the reference the next allocation returns
NewRef == Len(heap) + 1

\* BaseTool.finish: push the draft, whatever it holds, and clear it
BaseFinish(t) ==
  /\ items' = IF draft[t] # NoObj THEN [items EXCEPT ![t] = Append(@, draft[t])] ELSE items
  /\ draft' = [draft EXCEPT ![t] = NoObj]
  /\ threw' = FALSE
  /\ UNCHANGED <<heap, hover, pending, moveVars>>

\* BaseTool.cancel
BaseCancel(t) ==
  /\ draft' = [draft EXCEPT ![t] = NoObj]
  /\ threw' = FALSE
  /\ UNCHANGED <<heap, items, hover, pending, moveVars>>

\* BaseTool.onMouseMove / onMouseDown / onMouseUp: empty bodies
BaseNoop ==
  /\ threw' = FALSE
  /\ UNCHANGED <<toolVars, pending, moveVars>>

\* PointsTool.add: commits at once and issues an elevation lookup
PointsAdd(p) ==
  /\ Len(heap) < MaxObj
  /\ heap' = Append(heap, Spread([lat |-> p.lat, lng |-> p.lng, elev |-> NullElev],
                                  GetStyleSnapshot("points")))
  /\ items' = [items EXCEPT !["points"] = Append(@, NewRef)]
  /\ pending' = Append(pending, [kind |-> "object", obj |-> NewRef, idx |-> 0])
  /\ threw' = FALSE
  /\ UNCHANGED <<draft, hover, moveVars>>

\* PolylineTool.add: creates the draft on the first vertex, appends the vertex and
\* issues a lookup that writes into that vertex
PolylineAdd(p) ==
  LET fresh == draft["line"] = NoObj
      d     == IF fresh THEN NewRef ELSE draft["line"]
      old   == IF fresh THEN Spread([points |-> <<>>], GetStyleSnapshot("line"))
                        ELSE heap[d]
      new   == [old EXCEPT !.points = Append(@, [lat |-> p.lat, lng |-> p.lng, elev |-> NullElev])]
  IN /\ fresh => Len(heap) < MaxObj
     /\ Len(old.points) < MaxPts
     /\ heap' = IF fresh THEN Append(heap, new) ELSE [heap EXCEPT ![d] = new]
     /\ draft' = [draft EXCEPT !["line"] = d]
     /\ pending' = Append(pending, [kind |-> "vertex", obj |-> d, idx |-> Len(new.points)])
     /\ threw' = FALSE
     /\ UNCHANGED <<items, hover, moveVars>>

\* PolylineTool.finish with the threshold one lower (length > 0)
PolylineFinishFromOne ==
  LET d == draft["line"] IN
  /\ items' = IF d # NoObj /\ Len(heap[d].points) > 0
                THEN [items EXCEPT !["line"] = Append(@, d)] ELSE items
  /\ draft' = [draft EXCEPT !["line"] = NoObj]
  /\ hover' = [hover EXCEPT !["line"] = NoCoord]
  /\ threw' = FALSE
  /\ UNCHANGED <<heap, pending, moveVars>>

\* PolylineTool.finish: this._draft?.points.length > 1
PolylineFinish ==
  LET d == draft["line"] IN
  /\ items' = IF d # NoObj /\ Len(heap[d].points) > 1
                THEN [items EXCEPT !["line"] = Append(@, d)] ELSE items
  /\ draft' = [draft EXCEPT !["line"] = NoObj]
  /\ hover' = [hover EXCEPT !["line"] = NoCoord]
  /\ threw' = FALSE
  /\ UNCHANGED <<heap, pending, moveVars>>

\* PolylineTool.onMouseMove / PolygonTool.onMouseMove
HoverMove(t, p) ==
  /\ hover' = IF draft[t] # NoObj THEN [hover EXCEPT ![t] = p] ELSE hover
  /\ threw' = FALSE
  /\ UNCHANGED <<heap, items, draft, pending, moveVars>>

\* PolygonTool.add
PolygonAdd(p) ==
  LET fresh == draft["polygon"] = NoObj
      d     == IF fresh THEN NewRef ELSE draft["polygon"]
      old   == IF fresh THEN Spread([points |-> <<>>], GetStyleSnapshot("polygon"))
                        ELSE heap[d]
      new   == [old EXCEPT !.points = Append(@, [lat |-> p.lat, lng |-> p.lng])]
  IN /\ fresh => Len(heap) < MaxObj
     /\ Len(old.points) < MaxPts
     /\ heap' = IF fresh THEN Append(heap, new) ELSE [heap EXCEPT ![d] = new]
     /\ draft' = [draft EXCEPT !["polygon"] = d]
     /\ threw' = FALSE
     /\ UNCHANGED <<items, hover, pending, moveVars>>

\* PolygonTool.finish with the threshold one lower (length > 1)
PolygonFinishFromTwo ==
  LET d == draft["polygon"] IN
  /\ items' = IF d # NoObj /\ Len(heap[d].points) > 1
                THEN [items EXCEPT !["polygon"] = Append(@, d)] ELSE items
  /\ draft' = [draft EXCEPT !["polygon"] = NoObj]
  /\ hover' = [hover EXCEPT !["polygon"] = NoCoord]
  /\ threw' = FALSE
  /\ UNCHANGED <<heap, pending, moveVars>>

\* PolygonTool.finish: this._draft?.points.length > 2
PolygonFinish ==
  LET d == draft["polygon"] IN
  /\ items' = IF d # NoObj /\ Len(heap[d].points) > 2
                THEN [items EXCEPT !["polygon"] = Append(@, d)] ELSE items
  /\ draft' = [draft EXCEPT !["polygon"] = NoObj]
  /\ hover' = [hover EXCEPT !["polygon"] = NoCoord]
  /\ threw' = FALSE
  /\ UNCHANGED <<heap, pending, moveVars>>

\* SectorTool.add: the first click creates the draft and looks the center's elevation
\* up (the callback writes into whatever this._draft is when it runs; the request
\* remembers the draft that issued it, which the callback never reads); a click with
\* a draft pending pushes the draft and clears it
SectorAdd(p) ==
  IF draft["sector"] = NoObj
    THEN /\ Len(heap) < MaxObj
         /\ heap' = Append(heap, Spread([center |-> [lat |-> p.lat, lng |-> p.lng],
                                         radius |-> Num(0), bearing |-> Num(0),
                                         elev |-> NullElev],
                                        GetStyleSnapshot("sector")))
         /\ draft' = [draft EXCEPT !["sector"] = NewRef]
         /\ pending' = Append(pending, [kind |-> "sectorDraft", obj |-> NewRef, idx |-> 0])
         /\ threw' = FALSE
         /\ UNCHANGED <<items, hover, moveVars>>
    ELSE /\ items' = [items EXCEPT !["sector"] = Append(@, draft["sector"])]
         /\ draft' = [draft EXCEPT !["sector"] = NoObj]
         /\ threw' = FALSE
         /\ UNCHANGED <<heap, hover, pending, moveVars>>

\* a pointer-move that measures from the pointer back to the center
SectorOnMouseMoveFromPointer(p) ==
  LET d == draft["sector"] IN
  /\ heap' = IF d = NoObj THEN heap
             ELSE [heap EXCEPT ![d] = [@ EXCEPT !.radius = Distance(heap[d].center, p),
                                                !.bearing = Bearing(p, heap[d].center)]]
  /\ threw' = FALSE
  /\ UNCHANGED <<items, draft, hover, pending, moveVars>>

\* SectorTool.onMouseMove
SectorOnMouseMove(p) ==
  LET d == draft["sector"] IN
  /\ heap' = IF d = NoObj THEN heap
             ELSE [heap EXCEPT ![d] = [@ EXCEPT !.radius = Distance(heap[d].center, p),
                                                !.bearing = Bearing(heap[d].center, p)]]
  /\ threw' = FALSE
  /\ UNCHANGED <<items, draft, hover, pending, moveVars>>

\* TextTool.add: a new draft replaces any earlier one
TextAdd(p) ==
  /\ Len(heap) < MaxObj
  /\ heap' = Append(heap, Spread([lat |-> p.lat, lng |-> p.lng], GetStyleSnapshot("text")))
  /\ draft' = [draft EXCEPT !["text"] = NewRef]
  /\ threw' = FALSE
  /\ UNCHANGED <<items, hover, pending, moveVars>>

\* String.prototype.trim on a string given as a sequence of characters
RECURSIVE TrimLeft(_)
TrimLeft(s) == IF s # <<>> /\ Head(s) = " " THEN TrimLeft(Tail(s)) ELSE s
RECURSIVE TrimRight(_)
TrimRight(s) ==
  IF s # <<>> /\ s[Len(s)] = " " THEN TrimRight(SubSeq(s, 1, Len(s) - 1)) ELSE s
Trim(s) == TrimRight(TrimLeft(s))

\* TextTool.finish: this._draft && this._draft.text.trim() !== '' ; reading .trim of
\* an undefined text property is a TypeError, raised before anything is assigned
TextFinish ==
  LET d == draft["text"] IN
  IF d # NoObj /\ ~Has(heap[d], "text")
    THEN /\ threw' = TRUE
         /\ UNCHANGED <<toolVars, pending, moveVars>>
    ELSE /\ items' = IF d # NoObj /\ Trim(heap[d].text) # <<>>
                       THEN [items EXCEPT !["text"] = Append(@, d)] ELSE items
         /\ draft' = [draft EXCEPT !["text"] = NoObj]
         /\ threw' = FALSE
         /\ UNCHANGED <<heap, hover, pending, moveVars>>

-----------------------------------------------------------------------------
(* core/MapView.js, utils/drawing.js, utils/hitDetection.js *)

\* MapView.latLngToScreen: the renderer's forward projection (Leaflet's
\* latLngToContainerPoint), here 10 pixels per degree with y growing downwards
LatLngToScreen(ll) == [x |-> 10 * ll.lng, y |-> 0 - 10 * ll.lat]

Sq(n) == n * n

\* HitDetector.distancePx(a, b) < tol, compared on the squares (Math.sqrt is monotone)
DistancePxLess(a, b, tol) ==
  tol > 0 /\ Sq(b.x - a.x) + Sq(b.y - a.y) < Sq(tol)

\* DrawUtils.distToSegment(p, a, b), as the exact fraction num/den of its square:
\* t = ((p-a).(b-a)) / |b-a|^2, clamped to [0,1]; the distance from p to a + t(b-a)
DistToSegmentSq(p, a, b) ==
  LET dx == b.x - a.x
      dy == b.y - a.y
      l2 == Sq(dx) + Sq(dy)
      t  == (p.x - a.x) * dx + (p.y - a.y) * dy          \* numerator of t, over l2
      clamped == IF t < 0 THEN 0 ELSE IF t > l2 THEN l2 ELSE t
  IN IF dx = 0 /\ dy = 0
       THEN [num |-> Sq(p.x - a.x) + Sq(p.y - a.y), den |-> 1]
       ELSE [num |-> Sq((p.x - a.x) * l2 - clamped * dx) + Sq((p.y - a.y) * l2 - clamped * dy),
             den |-> Sq(l2)]

\* the comparison with <= in place of <
DistToSegmentAtMost(p, a, b, tol) ==
  LET d == DistToSegmentSq(p, a, b) IN tol > 0 /\ d.num <= Sq(tol) * d.den

\* DrawUtils.distToSegment(p, a, b) < tol
DistToSegmentLess(p, a, b, tol) ==
  LET d == DistToSegmentSq(p, a, b) IN tol > 0 /\ d.num < Sq(tol) * d.den

\* HitDetector.hitTestPoint
HitTestPoint(point, mousePx) ==
  DistancePxLess(mousePx, LatLngToScreen(point), tolerance)

\* HitDetector.hitTestSector: the projected center only
HitTestSector(sector, mousePx) ==
  DistancePxLess(mousePx, LatLngToScreen(sector.center), tolerance)

\* HitDetector.hitTestPolyline: the segments points[i]..points[i+1], i < length - 1
HitTestPolyline(item, mousePx) ==
  /\ Len(item.points) >= 2
  /\ \E i \in 1..(Len(item.points) - 1) :
       DistToSegmentLess(mousePx, LatLngToScreen(item.points[i]),
                         LatLngToScreen(item.points[i + 1]), tolerance)

\* HitDetector.hitTest: the shape is sniffed from the properties the item has
HitTest(item, mousePx) ==
  IF Has(item, "lat") /\ ~Has(item, "points") THEN HitTestPoint(item, mousePx)
  ELSE IF Has(item, "center") THEN HitTestSector(item, mousePx)
  ELSE IF Has(item, "points") THEN HitTestPolyline(item, mousePx)
  ELSE FALSE

\* a tool whose constructor sets no alias: BaseTool's items only
ArrayPropsWithoutAlias(tool) == IF tool \in EntityTools THEN {"items"} ELSE {}

\* the properties of a tool instance that hold its array: BaseTool's constructor sets
\* items, each entity tool's constructor adds one alias of the same array; the Move and
\* Delete tools have none
ArrayProps(tool) ==
  CASE tool = "points"  -> {"items", "points"}
    [] tool = "line"    -> {"items", "lines"}
    [] tool = "polygon" -> {"items", "polygons"}
    [] tool = "sector"  -> {"items", "sectors"}
    [] tool = "text"    -> {"items", "texts"}
    [] OTHER            -> {}

\* extractItems offering a tool's pending draft after its committed items
ExtractItemsWithDraft(tool) ==
  IF tool \in EntityTools
    THEN items[tool] \o (IF draft[tool] = NoObj THEN <<>> ELSE <<draft[tool]>>)
    ELSE <<>>

\* HitDetector.extractItems: tool.items || tool.points || tool.texts || tool.lines ||
\* tool.polygons || tool.sectors || [] (an array, even an empty one, is truthy)
ExtractItems(tool) ==
  IF ArrayProps(tool) \cap {"items", "points", "texts", "lines", "polygons", "sectors"} # {}
    THEN items[tool] ELSE <<>>

\* HitDetector.extractList: tool.points || tool.texts || tool.lines || tool.polygons ||
\* tool.sectors || null; pickForDelete skips a null list, here the empty list
ExtractList(tool) ==
  IF ArrayProps(tool) \cap {"points", "texts", "lines", "polygons", "sectors"} # {}
    THEN items[tool] ELSE <<>>

\* the inner loop keeping the last item that passes instead of returning at the first
RECURSIVE LastHit(_, _, _)
LastHit(list, mousePx, i) ==
  IF i > Len(list) THEN 0
  ELSE LET later == LastHit(list, mousePx, i + 1)
       IN IF later # 0 THEN later
          ELSE IF HitTest(heap[list[i]], mousePx) THEN i ELSE 0

\* the inner loop of pick / pickForDelete: index of the first item of list, from i on,
\* that passes hitTest; 0 when none does
RECURSIVE FirstHit(_, _, _)
FirstHit(list, mousePx, i) ==
  IF i > Len(list) THEN 0
  ELSE IF HitTest(heap[list[i]], mousePx) THEN i
  ELSE FirstHit(list, mousePx, i + 1)

\* the outer loop of pick, over toolList[k..]
RECURSIVE PickFrom(_, _, _)
PickFrom(toolList, mousePx, k) ==
  IF k > Len(toolList) THEN NoObj
  ELSE LET list == ExtractItems(toolList[k])
           i == FirstHit(list, mousePx, 1)
       IN IF i # 0 THEN list[i] ELSE PickFrom(toolList, mousePx, k + 1)

\* HitDetector.pick(latlng, tools): the item hit (a reference) or null
Pick(latlng, toolList) == PickFrom(toolList, LatLngToScreen(latlng), 1)

NoHit == [tool |-> NoName, index |-> 0]

\* the outer loop of pickForDelete, over toolList[k..]
RECURSIVE PickForDeleteFrom(_, _, _)
PickForDeleteFrom(toolList, mousePx, k) ==
  IF k > Len(toolList) THEN NoHit
  ELSE LET i == FirstHit(ExtractList(toolList[k]), mousePx, 1)
       IN IF i # 0 THEN [tool |-> toolList[k], index |-> i]
          ELSE PickForDeleteFrom(toolList, mousePx, k + 1)

\* HitDetector.pickForDelete(latlng, tools): { tool: the array, index } or null
\* (index is 1-based here)
PickForDelete(latlng, toolList) == PickForDeleteFrom(toolList, LatLngToScreen(latlng), 1)

-----------------------------------------------------------------------------
(* core/ToolManager.js: queries *)

IsTool(e) == e.tool # NoName

\* ToolManager.getAllTools: Array.from(values).filter(tool => tool !== null), the
\* non-null instances in Map order
GetAllTools ==
  LET kept == SelectSeq(tools, IsTool) IN [i \in 1..Len(kept) |-> kept[i].tool]

\* this.tools.has(name)
HasTool(name) == \E i \in 1..Len(tools) : tools[i].name = name

\* this.tools.get(name): the instance, NoName for a null instance, Undefined when absent
ToolsGet(name) ==
  IF HasTool(name) THEN (CHOOSE e \in {tools[i] : i \in 1..Len(tools)} : e.name = name).tool
  ELSE Undefined

\* ToolManager.getActive
GetActive == ToolsGet(activeTool)

\* the list Move and Delete hand to the hit detector:
\* getAllTools().filter(t => !t.isMoveTool)
NotMoveTool(t) == t # "move"
PickTools == SelectSeq(GetAllTools, NotMoveTool)

-----------------------------------------------------------------------------
(* tools/MoveTool.js, tools/DeleteTool.js *)

\* MoveTool.clone: JSON.parse(JSON.stringify(obj)), a structural copy; the objects of
\* the model are values, so the copy is the object's value at the time of the call
Clone(obj) == obj

\* applyDelta adding the delta to the live target instead of the origin copy
ApplyDeltaOnTarget(target, origin, dLat, dLng) ==
  IF Has(target, "lat") /\ ~Has(target, "points")
    THEN [target EXCEPT !.lat = @ + dLat, !.lng = @ + dLng]
  ELSE IF Has(target, "center")
    THEN [target EXCEPT !.center.lat = @ + dLat, !.center.lng = @ + dLng]
  ELSE IF Has(target, "points")
    THEN [target EXCEPT !.points =
            [i \in 1..Len(target.points) |->
               [target.points[i] EXCEPT !.lat = @ + dLat, !.lng = @ + dLng]]]
  ELSE target

\* applyDelta whose loop over the vertices stops after the first
ApplyDeltaFirstVertex(target, origin, dLat, dLng) ==
  IF Has(target, "lat") /\ ~Has(target, "points")
    THEN [target EXCEPT !.lat = origin.lat + dLat, !.lng = origin.lng + dLng]
  ELSE IF Has(target, "center")
    THEN [target EXCEPT !.center.lat = origin.center.lat + dLat,
                        !.center.lng = origin.center.lng + dLng]
  ELSE IF Has(target, "points")
    THEN [target EXCEPT !.points =
            [i \in 1..Len(target.points) |->
               IF i > 1 THEN target.points[i]
               ELSE [target.points[i] EXCEPT !.lat = origin.points[i].lat + dLat,
                                             !.lng = origin.points[i].lng + dLng]]]
  ELSE target

\* MoveTool.applyDelta: the target re-derived from the origin copy
ApplyDelta(target, origin, dLat, dLng) ==
  IF Has(target, "lat") /\ ~Has(target, "points")
    THEN [target EXCEPT !.lat = origin.lat + dLat, !.lng = origin.lng + dLng]
  ELSE IF Has(target, "center")
    THEN [target EXCEPT !.center.lat = origin.center.lat + dLat,
                        !.center.lng = origin.center.lng + dLng]
  ELSE IF Has(target, "points")
    THEN [target EXCEPT !.points =
            [i \in 1..Len(target.points) |->
               [target.points[i] EXCEPT !.lat = origin.points[i].lat + dLat,
                                        !.lng = origin.points[i].lng + dLng]]]
  ELSE target

\* no Move pointer-down in progress
NoDrag == [hit |-> NoObj, start |-> NoCoord, at |-> NoCoord, last |-> NoCoord]

\* MoveTool.onMouseDown.  The history records what the pointer-down hit, where, the
\* entity as it was then, and the pointer position of the latest move since; a
\* pointer-down during an unfinished drag forgets the drag finished before it
MoveOnMouseDown(p) ==
  LET hit == Pick(p, PickTools) IN
  /\ IF hit = NoObj
       THEN UNCHANGED <<moveTarget, moveOrigin, moveStart>>
       ELSE /\ moveTarget' = hit
            /\ moveOrigin' = Clone(heap[hit])
            /\ moveStart' = p
  /\ drag' = [hit |-> hit, start |-> p,
              at |-> IF hit = NoObj THEN NoCoord ELSE heap[hit], last |-> p]
  /\ lastDrag' = IF drag = NoDrag THEN lastDrag ELSE NoDrag
  /\ threw' = FALSE
  /\ UNCHANGED <<toolVars, pending>>

\* MoveTool.onMouseMove
MoveOnMouseMove(p) ==
  /\ heap' = IF moveTarget = NoObj THEN heap
             ELSE [heap EXCEPT ![moveTarget] =
                     ApplyDelta(@, moveOrigin, p.lat - moveStart.lat, p.lng - moveStart.lng)]
  /\ drag' = IF drag = NoDrag THEN drag ELSE [drag EXCEPT !.last = p]
  /\ threw' = FALSE
  /\ UNCHANGED <<items, draft, hover, pending, moveTarget, moveOrigin, moveStart, lastDrag>>

\* a finish that keeps the target, the origin copy and the start
MoveFinishKeeping ==
  /\ drag' = NoDrag
  /\ lastDrag' = drag
  /\ threw' = FALSE
  /\ UNCHANGED <<toolVars, pending, moveTarget, moveOrigin, moveStart>>

\* MoveTool.finish
MoveFinish ==
  /\ moveTarget' = NoObj
  /\ moveOrigin' = NoCoord
  /\ moveStart' = NoCoord
  /\ drag' = NoDrag
  /\ lastDrag' = drag
  /\ threw' = FALSE
  /\ UNCHANGED <<toolVars, pending>>

\* splice(index, 2): the element at index and the one after it, when there is one
SpliceTwo(list, index) ==
  LET n == IF index < Len(list) THEN 2 ELSE 1
  IN [i \in 1..(Len(list) - n) |-> IF i < index THEN list[i] ELSE list[i + n]]

\* Array.prototype.splice(index, 1), index 1-based
Splice(list, index) ==
  [i \in 1..(Len(list) - 1) |-> IF i < index THEN list[i] ELSE list[i + 1]]

\* DeleteTool.add
DeleteAdd(p) ==
  LET hit == PickForDelete(p, PickTools) IN
  /\ items' = IF hit = NoHit THEN items
              ELSE [items EXCEPT ![hit.tool] = Splice(@, hit.index)]
  /\ threw' = FALSE
  /\ UNCHANGED <<heap, draft, hover, pending, moveVars>>

-----------------------------------------------------------------------------
(* core/ToolManager.js, core/AppState.js: operations *)

\* a JavaScript falsy name: null or the empty string
Falsy(name) == name = NoName \/ name = ""

\* Map.prototype.set: a new key goes last, an existing key keeps its place
MapSet(m, name, tool) ==
  IF \E i \in 1..Len(m) : m[i].name = name
    THEN [i \in 1..Len(m) |-> IF m[i].name = name THEN [name |-> name, tool |-> tool] ELSE m[i]]
    ELSE Append(m, [name |-> name, tool |-> tool])

\* ToolManager.register(name, tool)
Register(name, tool) ==
  /\ tools' = MapSet(tools, name, tool)
  /\ registrationOrder' =
       IF \E i \in 1..Len(registrationOrder) : registrationOrder[i] = name
         THEN registrationOrder ELSE Append(registrationOrder, name)
  /\ activeTool' = IF Falsy(activeTool) THEN name ELSE activeTool
  /\ emitted' = <<>>
  /\ ret' = Undefined

\* ToolManager.unregister(name)
Unregister(name) ==
  LET keepEntry(e) == e.name # name
      keepName(n) == n # name
      order == SelectSeq(registrationOrder, keepName)
  IN IF ~HasTool(name)
       THEN /\ UNCHANGED <<tools, registrationOrder, activeTool>>
            /\ emitted' = <<>>
            /\ ret' = Undefined
       ELSE /\ tools' = SelectSeq(tools, keepEntry)
            /\ registrationOrder' = order
            /\ activeTool' =
                 IF activeTool = name
                   THEN (IF order # <<>> /\ ~Falsy(order[1]) THEN order[1] ELSE NoName)
                   ELSE activeTool
            /\ emitted' = <<>>
            /\ ret' = Undefined

\* ToolManager.setActive(name): the registry part (tools, activeTool) and the event
SetActiveEvent(name) ==
  [event |-> "tool:changed", name |-> name, tool |-> ToolsGet(name),
   previousName |-> activeTool, previousTool |-> ToolsGet(activeTool)]

SetActiveOk(name) == HasTool(name)

\* setActive without the tools.has(name) guard
SetActiveUnguarded(name) ==
  /\ activeTool' = name
  /\ emitted' = <<SetActiveEvent(name)>>
  /\ ret' = "true"
  /\ UNCHANGED <<tools, registrationOrder>>

\* ToolManager.setActive(name)
SetActive(name) ==
  IF ~SetActiveOk(name)
    THEN /\ UNCHANGED <<tools, registrationOrder, activeTool>>
         /\ emitted' = <<>>
         /\ ret' = "false"
    ELSE /\ activeTool' = name
         /\ emitted' = <<SetActiveEvent(name)>>
         /\ ret' = "true"
         /\ UNCHANGED <<tools, registrationOrder>>

\* AppState.setMode(mode)
SetMode(mode) ==
  IF currentMode = mode
    THEN /\ UNCHANGED <<tools, registrationOrder, activeTool, currentMode>>
         /\ emitted' = <<>>
         /\ ret' = Undefined
    ELSE /\ currentMode' = mode
         /\ activeTool' = IF SetActiveOk(mode) THEN mode ELSE activeTool
         /\ emitted' = (IF SetActiveOk(mode) THEN <<SetActiveEvent(mode)>> ELSE <<>>)
                       \o <<[event |-> "mode:changed", mode |-> mode,
                             previousMode |-> currentMode,
                             tool |-> IF SetActiveOk(mode) THEN ToolsGet(mode) ELSE GetActive]>>
         /\ ret' = Undefined
         /\ UNCHANGED <<tools, registrationOrder>>

\* ToolManager.getDrawingTools: registered under a name other than explore, move,
\* delete, and not null
IsDrawingEntry(e) == e.name \notin {"explore", "move", "delete"} /\ e.tool # NoName
GetDrawingTools ==
  LET kept == SelectSeq(tools, IsDrawingEntry) IN [i \in 1..Len(kept) |-> kept[i].tool]

SeqRange(s) == {s[i] : i \in 1..Len(s)}

\* the loop of ToolManager.clearAllData and of AppState.clearAll over toolList:
\* items.length = 0 on every array the tool has (items and its alias are one array)
TruncateAll(toolList) ==
  [t \in EntityTools |-> IF t \in SeqRange(toolList) THEN <<>> ELSE items[t]]

\* ToolManager.clearAllData
ClearAllData ==
  /\ items' = TruncateAll(GetDrawingTools)
  /\ emitted' = <<[event |-> "tools:data-cleared"]>>
  /\ threw' = FALSE
  /\ UNCHANGED <<heap, draft, hover, pending, moveVars>>

\* AppState.clearAll
AppClearAll ==
  /\ items' = TruncateAll(GetAllTools)
  /\ emitted' = <<[event |-> "data:cleared"]>>
  /\ threw' = FALSE
  /\ UNCHANGED <<heap, draft, hover, pending, moveVars>>

\* a setAngle that, with no draft pending, writes into the sector committed last
SectorSetAngleOnLast(deg) ==
  LET d == IF draft["sector"] # NoObj THEN draft["sector"]
           ELSE IF items["sector"] # <<>> THEN items["sector"][Len(items["sector"])]
           ELSE NoObj
      style == [GetStyle("sector") EXCEPT !.angle = deg]
  IN /\ styles' = SetStyle("sector", style)
     /\ heap' = IF d # NoObj THEN [heap EXCEPT ![d].angle = deg] ELSE heap
     /\ threw' = FALSE
     /\ UNCHANGED <<items, draft, hover, pending, moveVars>>

\* SectorTool.setAngle(deg)
SectorSetAngle(deg) ==
  LET d == draft["sector"]
      style == [GetStyle("sector") EXCEPT !.angle = deg]
  IN /\ styles' = SetStyle("sector", style)
     /\ heap' = IF d # NoObj THEN [heap EXCEPT ![d].angle = deg] ELSE heap
     /\ threw' = FALSE
     /\ UNCHANGED <<items, draft, hover, pending, moveVars>>

-----------------------------------------------------------------------------
(* io/IOManager.js and the tools' accepts / fromGeoJSON *)

\* a optional-chained property read: f.geometry?.type, f.properties?.type
GeomType(f) ==
  IF Has(f, "geometry") /\ Has(f.geometry, "type") THEN f.geometry.type ELSE Undefined
PropType(f) ==
  IF Has(f, "properties") /\ Has(f.properties, "type") THEN f.properties.type ELSE Undefined

\* accepts with PolygonTool's test of properties.type left out
AcceptsAnyPolygon(tool, f) ==
  CASE tool = "points"  -> GeomType(f) = "Point" /\ PropType(f) \in {Undefined, ""}
    [] tool = "text"    -> GeomType(f) = "Point" /\ PropType(f) = "text"
    [] tool = "line"    -> GeomType(f) = "LineString"
    [] tool = "polygon" -> GeomType(f) = "Polygon"
    [] tool = "sector"  -> GeomType(f) = "Polygon" /\ PropType(f) = "sector"
    [] OTHER            -> FALSE

\* the static accepts(feature) of the tool's class; MoveTool and DeleteTool have none
Accepts(tool, f) ==
  CASE tool = "points"  -> GeomType(f) = "Point" /\ PropType(f) \in {Undefined, ""}
    [] tool = "text"    -> GeomType(f) = "Point" /\ PropType(f) = "text"
    [] tool = "line"    -> GeomType(f) = "LineString"
    [] tool = "polygon" -> GeomType(f) = "Polygon" /\ PropType(f) # "sector"
    [] tool = "sector"  -> GeomType(f) = "Polygon" /\ PropType(f) = "sector"
    [] OTHER            -> FALSE

\* f.properties?.name ?? dflt and f.properties?.name || dflt, on string-valued properties
PropOr(f, name, dflt) ==
  IF Has(f, "properties") /\ Has(f.properties, name) THEN f.properties[name] ELSE dflt
PropOrTruthy(f, name, dflt) ==
  IF Has(f, "properties") /\ Has(f.properties, name) /\ f.properties[name] # ""
    THEN f.properties[name] ELSE dflt

\* whether the tool's fromGeoJSON(f) throws: coordinates that are missing where the
\* code destructures them (Point, text), maps them (LineString) or indexes and slices
\* them (Polygon)
FromGeoJSONThrows(tool, f) ==
  LET g == f.geometry IN
  CASE tool \in {"points", "text", "line"} -> ~Has(g, "coordinates")
    [] tool = "polygon" -> ~Has(g, "coordinates") \/ g.coordinates = <<>>
    [] OTHER -> FALSE

\* the object the tool's fromGeoJSON(f) pushes when it does not throw
FromGeoJSONObject(tool, f) ==
  LET g == f.geometry IN
  CASE tool = "points" ->
         [lat |-> g.coordinates[2], lng |-> g.coordinates[1],
          elev |-> PropOr(f, "elevation", NullElev),
          color |-> PropOr(f, "color", "black"),
          symbol |-> PropOr(f, "symbol", "circle")]
    [] tool = "text" ->
         Spread([lat |-> g.coordinates[2], lng |-> g.coordinates[1],
                 color |-> PropOrTruthy(f, "color", "black"),
                 size |-> PropOr(f, "size", 14)],
                IF Has(f.properties, "text") THEN [text |-> f.properties.text] ELSE <<>>)
    [] tool = "line" ->
         [points |-> [i \in 1..Len(g.coordinates) |->
                        [lng |-> g.coordinates[i][1], lat |-> g.coordinates[i][2],
                         elev |-> NullElev]],
          color |-> PropOrTruthy(f, "color", "black"),
          style |-> PropOrTruthy(f, "style", "solid")]
    [] tool = "polygon" ->
         LET ring == g.coordinates[1]
             open == IF ring = <<>> THEN <<>> ELSE SubSeq(ring, 1, Len(ring) - 1)
         IN [points |-> [i \in 1..Len(open) |-> [lng |-> open[i][1], lat |-> open[i][2]]],
             color |-> PropOr(f, "color", "green"),
             alpha |-> PropOr(f, "alpha", 25)]
    [] tool = "sector" ->
         Spread([color |-> PropOrTruthy(f, "color", "black")],
                [n \in DOMAIN f.properties \cap {"center", "radius", "bearing", "angle"}
                   |-> f.properties[n]]
                @@ (IF Has(f.properties, "elevation")
                      THEN [elev |-> f.properties.elevation] ELSE <<>>))

\* the first tool of toolList, from k on, whose class accepts f; NoName when none does
RECURSIVE FirstAccepting(_, _, _)
FirstAccepting(toolList, f, k) ==
  IF k > Len(toolList) THEN NoName
  ELSE IF Accepts(toolList[k], f) THEN toolList[k]
  ELSE FirstAccepting(toolList, f, k + 1)

\* the loop leaving at the first feature that no tool accepts
RECURSIVE ImportFromUntilUnknown(_, _, _, _, _)
ImportFromUntilUnknown(features, k, h, its, count) ==
  IF k > Len(features) THEN [heap |-> h, items |-> its, count |-> count, threw |-> FALSE]
  ELSE LET f == features[k]
           tool == FirstAccepting(GetAllTools, f, 1)
       IN IF tool = NoName
            THEN [heap |-> h, items |-> its, count |-> count, threw |-> FALSE]
          ELSE IF FromGeoJSONThrows(tool, f)
            THEN [heap |-> h, items |-> its, count |-> count, threw |-> TRUE]
          ELSE ImportFromUntilUnknown(features, k + 1, Append(h, FromGeoJSONObject(tool, f)),
                                      [its EXCEPT ![tool] = Append(@, Len(h) + 1)], count + 1)

\* an import whose fromGeoJSON replaces the tool's collection by the new entity
RECURSIVE ImportFromReplacing(_, _, _, _, _)
ImportFromReplacing(features, k, h, its, count) ==
  IF k > Len(features) THEN [heap |-> h, items |-> its, count |-> count, threw |-> FALSE]
  ELSE LET f == features[k]
           tool == FirstAccepting(GetAllTools, f, 1)
       IN IF tool = NoName THEN ImportFromReplacing(features, k + 1, h, its, count)
          ELSE IF FromGeoJSONThrows(tool, f)
            THEN [heap |-> h, items |-> its, count |-> count, threw |-> TRUE]
          ELSE ImportFromReplacing(features, k + 1, Append(h, FromGeoJSONObject(tool, f)),
                                   [its EXCEPT ![tool] = <<Len(h) + 1>>], count + 1)

\* IOManager.importGeoJSON: the loop over features[k..], threading the heap, the
\* collections and the count; it stops where a fromGeoJSON throws
RECURSIVE ImportFrom(_, _, _, _, _)
ImportFrom(features, k, h, its, count) ==
  IF k > Len(features) THEN [heap |-> h, items |-> its, count |-> count, threw |-> FALSE]
  ELSE LET f == features[k]
           tool == FirstAccepting(GetAllTools, f, 1)
       IN IF tool = NoName THEN ImportFrom(features, k + 1, h, its, count)
          ELSE IF FromGeoJSONThrows(tool, f)
            THEN [heap |-> h, items |-> its, count |-> count, threw |-> TRUE]
          ELSE ImportFrom(features, k + 1, Append(h, FromGeoJSONObject(tool, f)),
                          [its EXCEPT ![tool] = Append(@, Len(h) + 1)], count + 1)

\* a validation that looks at nothing but typeof json
ValidateIsObject(json) == json.isObject

\* IOManager.validateGeoJSON
ValidateGeoJSON(json) ==
  /\ json.isObject
  /\ json.type = "FeatureCollection"
  /\ json.featuresIsArray

\* IOManager.import(file), from the moment the file has been read and parsed
Import(json) ==
  IF ~ValidateGeoJSON(json)
    THEN /\ alerts' = <<"Invalid GeoJSON format">>
         /\ emitted' = <<>>
         /\ threw' = FALSE
         /\ UNCHANGED <<toolVars, pending, moveVars>>
    ELSE LET r == ImportFrom(json.features, 1, heap, items, 0)
         IN /\ Len(heap) + Len(json.features) <= MaxObj
            /\ heap' = r.heap
            /\ items' = r.items
            /\ alerts' = IF r.threw THEN <<"Import failed">> ELSE <<>>
            /\ emitted' = IF r.threw THEN <<>>
                          ELSE <<[event |-> "import:complete", featureCount |-> r.count],
                                 [event |-> "redraw"]>>
            /\ threw' = FALSE
            /\ UNCHANGED <<draft, hover, pending, moveVars>>

\* a GeoJSON Feature and a parsed FeatureCollection
Feature(type, coords, props) ==
  [type |-> "Feature", geometry |-> [type |-> type, coordinates |-> coords], properties |-> props]

Collection(features) ==
  [isObject |-> TRUE, type |-> "FeatureCollection", featuresIsArray |-> TRUE,
   features |-> features]

\* a property of an object literal, as it survives JSON.stringify / JSON.parse: a
\* property whose value is undefined (the entity has no such field) is left out
JSONProp(name, o, field) == IF Has(o, field) THEN name :> o[field] ELSE <<>>

\* the feature the tool's toGeoJSON makes of its entity o.  Derived numbers (length,
\* area) and the ring of a sector are kept as the application that computes them
ToGeoJSON(tool, o) ==
  CASE tool = "points" ->
         Feature("Point", <<o.lng, o.lat>>,
                 JSONProp("elevation", o, "elev") @@ JSONProp("color", o, "color")
                   @@ JSONProp("symbol", o, "symbol"))
    [] tool = "line" ->
         Feature("LineString",
                 [i \in 1..Len(o.points) |-> <<o.points[i].lng, o.points[i].lat>>],
                 JSONProp("color", o, "color") @@ JSONProp("style", o, "style")
                   @@ [distance |-> <<"polylineLength">>])
    [] tool = "polygon" ->
         Feature("Polygon",
                 << [i \in 1..(Len(o.points) + 1) |->
                       IF i <= Len(o.points) THEN <<o.points[i].lng, o.points[i].lat>>
                       ELSE <<o.points[1].lng, o.points[1].lat>>] >>,
                 JSONProp("color", o, "color") @@ JSONProp("alpha", o, "alpha")
                   @@ [area |-> <<"polygonArea">>])
    [] tool = "sector" ->
         Feature("Polygon", << <<"sectorCoordinates">> >>,
                 [type |-> "sector"] @@ JSONProp("center", o, "center")
                   @@ JSONProp("radius", o, "radius") @@ JSONProp("bearing", o, "bearing")
                   @@ JSONProp("angle", o, "angle") @@ JSONProp("elevation", o, "elev")
                   @@ JSONProp("color", o, "color") @@ [area |-> <<"sectorArea">>])
    [] tool = "text" ->
         Feature("Point", <<o.lng, o.lat>>,
                 [type |-> "text"] @@ JSONProp("text", o, "text")
                   @@ JSONProp("color", o, "color") @@ JSONProp("size", o, "size"))

\* the features of toolList[k..], tool by tool, each collection in order
RECURSIVE ExportFeatures(_, _)
ExportFeatures(toolList, k) ==
  IF k > Len(toolList) THEN <<>>
  ELSE LET t == toolList[k]
       IN [i \in 1..Len(items[t]) |-> ToGeoJSON(t, heap[items[t][i]])]
            \o ExportFeatures(toolList, k + 1)

\* PolygonTool.toGeoJSON reads p.points[0].lng: a TypeError when a polygon has no vertex
ExportThrows ==
  \E i \in 1..Len(items["polygon"]) : heap[items["polygon"][i]].points = <<>>

\* IOManager.export(): the document handed to the download, which is also returned
Export ==
  /\ ret' = IF ExportThrows THEN NoName ELSE Collection(ExportFeatures(GetDrawingTools, 1))
  /\ emitted' = IF ExportThrows THEN <<>>
                ELSE <<[event |-> "export:complete",
                        featureCount |-> Len(ExportFeatures(GetDrawingTools, 1))]>>
  /\ alerts' = IF ExportThrows THEN <<"Export failed">> ELSE <<>>
  /\ threw' = FALSE
  /\ UNCHANGED <<toolVars, pending, moveVars>>

-----------------------------------------------------------------------------
(* main.js, ui/KeyboardShortcuts.js, ui/UIManager.js: the handlers that route an   *)
(* input event to the active tool.  tool?.method?.(...) calls the method when the  *)
(* active instance has it and does nothing otherwise.                              *)

quiet == /\ emitted' = <<>>
         /\ ret' = Undefined
         /\ alerts' = <<>>
         /\ call' = <<>>

\* map.onClick: tool?.add?.(latlng)
OnClick(p) ==
  /\ lastOp' = "click"
  /\ CASE GetActive = "points"  -> PointsAdd(p)
       [] GetActive = "line"    -> PolylineAdd(p)
       [] GetActive = "polygon" -> PolygonAdd(p)
       [] GetActive = "sector"  -> SectorAdd(p)
       [] GetActive = "text"    -> TextAdd(p)
       [] GetActive = "delete"  -> DeleteAdd(p)
       [] OTHER                 -> BaseNoop
  /\ quiet
  /\ UNCHANGED <<regVars, styles, tolerance, utilVars>>

\* tool.finish() of the active instance
FinishActive ==
  CASE GetActive = "points"  -> BaseFinish("points")
    [] GetActive = "line"    -> PolylineFinish
    [] GetActive = "polygon" -> PolygonFinish
    [] GetActive = "sector"  -> BaseFinish("sector")
    [] GetActive = "text"    -> TextFinish
    [] GetActive = "move"    -> MoveFinish
    [] OTHER                 -> BaseNoop

\* map.onDoubleClick: tool?.finish?.() ; KeyboardShortcuts.stopDrawing (Enter, Escape)
OnFinish ==
  /\ lastOp' = "finish"
  /\ FinishActive
  /\ quiet
  /\ UNCHANGED <<regVars, styles, tolerance, utilVars>>

\* map.onMouseDown: tool?.onMouseDown?.(latlng)
OnMouseDown(p) ==
  /\ lastOp' = "mousedown"
  /\ IF GetActive = "move" THEN MoveOnMouseDown(p) ELSE BaseNoop
  /\ quiet
  /\ UNCHANGED <<regVars, styles, tolerance, utilVars>>

\* map.onMouseUp: if (tool?.isMoveTool) tool.finish()
OnMouseUp ==
  /\ lastOp' = "mouseup"
  /\ IF GetActive = "move" THEN MoveFinish ELSE BaseNoop
  /\ quiet
  /\ UNCHANGED <<regVars, styles, tolerance, utilVars>>

\* map.onMouseMove: tool?.onMouseMove?.(latlng)
OnMouseMove(p) ==
  /\ lastOp' = "mousemove"
  /\ CASE GetActive \in {"line", "polygon"} -> HoverMove(GetActive, p)
       [] GetActive = "sector"              -> SectorOnMouseMove(p)
       [] GetActive = "move"                -> MoveOnMouseMove(p)
       [] OTHER                             -> BaseNoop
  /\ quiet
  /\ UNCHANGED <<regVars, styles, tolerance, utilVars>>

\* a mode change that also cancels the draft of the tool being left
OnSetModeCancelling(mode) ==
  /\ lastOp' = "setMode"
  /\ SetMode(mode)
  /\ draft' = [t \in EntityTools |-> IF t = activeTool /\ mode # currentMode
                                        THEN NoObj ELSE draft[t]]
  /\ threw' = FALSE
  /\ alerts' = <<>>
  /\ call' = <<>>
  /\ UNCHANGED <<styles, heap, items, hover, pending, moveVars, tolerance, utilVars>>

\* the mode selector and the tool shortcuts: appState.setMode(name)
OnSetMode(mode) ==
  /\ lastOp' = "setMode"
  /\ SetMode(mode)
  /\ threw' = FALSE
  /\ alerts' = <<>>
  /\ call' = <<>>
  /\ UNCHANGED <<styles, toolVars, pending, moveVars, tolerance, utilVars>>

\* UIManager.initSectorAngle: the sector-angle input
OnSectorAngle(deg) ==
  /\ lastOp' = "setAngle"
  /\ IF GetActive = "sector"
       THEN SectorSetAngle(deg)
       ELSE /\ styles' = SetStyle("sector", [angle |-> deg])
            /\ threw' = FALSE
            /\ UNCHANGED <<toolVars, pending, moveVars>>
  /\ quiet
  /\ UNCHANGED <<regVars, tolerance, utilVars>>

\* the option as it would work were entities to share the manager's style object:
\* every entity and draft of the tool shows the new value
OnOptionShared(toolName, styleProp, value) ==
  /\ lastOp' = "option"
  /\ call' = <<toolName, styleProp, value>>
  /\ styles' = UpdateProperty(toolName, styleProp, value)
  /\ heap' = [r \in 1..Len(heap) |->
                IF (\E k \in 1..Len(items[toolName]) : items[toolName][k] = r)
                   \/ draft[toolName] = r
                  THEN Spread(heap[r], [f \in {styleProp} |-> value]) ELSE heap[r]]
  /\ threw' = FALSE
  /\ emitted' = <<>> /\ ret' = Undefined /\ alerts' = <<>>
  /\ UNCHANGED <<regVars, items, draft, hover, pending, moveVars, tolerance, utilVars>>

\* UIManager.bindOption(element, toolName, styleProp): a tool option changed in the
\* panel.  Entities and drafts hold copies of the style's primitive values (getStyle
\* returns { ...style } and every add spreads it again), never the manager's object
OnOption(toolName, styleProp, value) ==
  /\ lastOp' = "option"
  /\ call' = <<toolName, styleProp, value>>
  /\ styles' = UpdateProperty(toolName, styleProp, value)
  /\ threw' = FALSE
  /\ emitted' = <<>> /\ ret' = Undefined /\ alerts' = <<>>
  /\ UNCHANGED <<regVars, toolVars, pending, moveVars, tolerance, utilVars>>

\* styleManager.setStyle(toolName, updates) called on its own
CallSetStyle(toolName, updates) ==
  /\ lastOp' = "setStyle"
  /\ call' = <<toolName, updates>>
  /\ styles' = SetStyle(toolName, updates)
  /\ threw' = FALSE
  /\ emitted' = <<>> /\ ret' = Undefined /\ alerts' = <<>>
  /\ UNCHANGED <<regVars, toolVars, pending, moveVars, tolerance, utilVars>>

\* styleManager.reset(toolName) called on its own
CallReset(toolName) ==
  /\ lastOp' = "reset"
  /\ call' = <<toolName>>
  /\ styles' = Reset(toolName)
  /\ threw' = FALSE
  /\ emitted' = <<>> /\ ret' = Undefined /\ alerts' = <<>>
  /\ UNCHANGED <<regVars, toolVars, pending, moveVars, tolerance, utilVars>>

\* UIManager.resetOptions: resetAll(), then the panel's inputs show the defaults
OnResetOptions ==
  /\ lastOp' = "resetOptions"
  /\ styles' = ResetAll
  /\ threw' = FALSE
  /\ quiet
  /\ UNCHANGED <<regVars, toolVars, pending, moveVars, tolerance, utilVars>>

\* UIManager.bindOption('textValue', 'text', 'value', 'input'): typing in the text box
OnTextValue(v) ==
  /\ lastOp' = "textValue"
  /\ styles' = UpdateProperty("text", "value", v)
  /\ threw' = FALSE
  /\ quiet
  /\ UNCHANGED <<regVars, toolVars, pending, moveVars, tolerance, utilVars>>

\* BaseTool.cancel() called on an entity tool
OnCancel(t) ==
  /\ lastOp' = "cancel"
  /\ BaseCancel(t)
  /\ quiet
  /\ UNCHANGED <<regVars, styles, tolerance, utilVars>>

\* toolManager.clearAllData()
OnClearAllData ==
  /\ lastOp' = "clearAllData"
  /\ ClearAllData
  /\ ret' = Undefined
  /\ alerts' = <<>>
  /\ call' = <<>>
  /\ UNCHANGED <<regVars, styles, tolerance, utilVars>>

\* appState.clearAll()
OnAppClearAll ==
  /\ lastOp' = "clearAll"
  /\ AppClearAll
  /\ ret' = Undefined
  /\ alerts' = <<>>
  /\ call' = <<>>
  /\ UNCHANGED <<regVars, styles, tolerance, utilVars>>

\* KeyboardShortcuts.handleKeyDown(e) (enabled is true from construction on; nothing
\* calls disable()).  e.key is the key in lower case, e.ctrl is ctrlKey || metaKey,
\* e.typing says the focus is in an input field, confirmed is what the user answers
\* should confirm() be asked.  handleKey tries its branches in the order written;
\* undo, redo and deleteSelected only log
OnKeyDown(e, confirmed) ==
  LET toolShortcuts == [k \in {"e", "p", "s", "l", "o", "t", "m", "d"} |->
                          CASE k = "e" -> "explore" [] k = "p" -> "points"
                            [] k = "s" -> "sector"  [] k = "l" -> "line"
                            [] k = "o" -> "polygon" [] k = "t" -> "text"
                            [] k = "m" -> "move"    [] k = "d" -> "delete"]
      nothing == /\ lastOp' = "keydown"
                 /\ threw' = FALSE
                 /\ quiet
                 /\ UNCHANGED <<regVars, styles, toolVars, pending, moveVars, tolerance, utilVars>>
  IN IF e.typing THEN nothing
     ELSE IF e.key \in {"enter", "escape"} THEN OnFinish
     ELSE IF e.key \in DOMAIN toolShortcuts THEN OnSetMode(toolShortcuts[e.key])
     ELSE IF e.ctrl /\ e.key = "z" THEN nothing
     ELSE IF e.ctrl /\ (e.key = "y" \/ (e.shift /\ e.key = "z")) THEN nothing
     ELSE IF e.key \in {"delete", "backspace"} THEN nothing
     ELSE IF e.ctrl /\ e.shift /\ e.key = "delete"
       THEN IF confirmed THEN OnAppClearAll ELSE nothing
     ELSE nothing

\* the file input's change handler: ioManager.import(file)
OnImport(json) ==
  /\ lastOp' = "import"
  /\ Import(json)
  /\ ret' = Undefined
  /\ call' = <<>>
  /\ UNCHANGED <<regVars, styles, tolerance, utilVars>>

\* the export button: ioManager.export()
OnExport ==
  /\ lastOp' = "export"
  /\ Export
  /\ call' = <<>>
  /\ UNCHANGED <<regVars, styles, tolerance, utilVars>>

\* a resolution whose callback puts its point back into the collection when it is no
\* longer there
ResolveElevationRestoring(i, e) ==
  LET req == pending[i]
      lost == req.kind = "object" /\ \A k \in 1..Len(items["points"]) :
                                        items["points"][k] # req.obj
  IN /\ lastOp' = "resolve"
     /\ heap' = CASE req.kind = "object" -> [heap EXCEPT ![req.obj].elev = e]
                  [] req.kind = "vertex" ->
                       [heap EXCEPT ![req.obj].points[req.idx].elev = e]
                  [] req.kind = "sectorDraft" ->
                       IF draft["sector"] # NoObj
                         THEN [heap EXCEPT ![draft["sector"]].elev = e] ELSE heap
     /\ items' = IF lost THEN [items EXCEPT !["points"] = Append(@, req.obj)] ELSE items
     /\ pending' = Splice(pending, i)
     /\ threw' = FALSE
     /\ quiet
     /\ UNCHANGED <<regVars, styles, draft, hover, moveVars, tolerance, utilVars>>

\* a resolution whose failure reaches the caller: getElevation rejecting on a failed
\* lookup, with no catch behind the callback
ResolveElevationRejecting(i, e) ==
  LET req == pending[i] IN
  /\ lastOp' = "resolve"
  /\ heap' = IF e = NullElev THEN heap
             ELSE CASE req.kind = "object" -> [heap EXCEPT ![req.obj].elev = e]
                    [] req.kind = "vertex" ->
                         [heap EXCEPT ![req.obj].points[req.idx].elev = e]
                    [] req.kind = "sectorDraft" ->
                         IF draft["sector"] # NoObj
                           THEN [heap EXCEPT ![draft["sector"]].elev = e] ELSE heap
  /\ pending' = Splice(pending, i)
  /\ threw' = (e = NullElev)
  /\ emitted' = <<>>
  /\ ret' = Undefined
  /\ alerts' = IF e = NullElev THEN <<"Elevation fetch failed">> ELSE <<>>
  /\ call' = <<>>
  /\ UNCHANGED <<regVars, styles, items, draft, hover, moveVars, tolerance, utilVars>>

\* a lookup issued by getElevation(...).then(...) resolves with e (null when the
\* lookup failed: getElevation catches and returns null): the callback of
\* PointsTool.add writes point.elev, that of PolylineTool.add writes p.elev of its
\* vertex, that of SectorTool.add writes this._draft.elev if a draft exists then
ResolveElevation(i, e) ==
  LET req == pending[i] IN
  /\ lastOp' = "resolve"
  /\ heap' = CASE req.kind = "object" -> [heap EXCEPT ![req.obj].elev = e]
               [] req.kind = "vertex" -> [heap EXCEPT ![req.obj].points[req.idx].elev = e]
               [] req.kind = "sectorDraft" ->
                    IF draft["sector"] # NoObj
                      THEN [heap EXCEPT ![draft["sector"]].elev = e] ELSE heap
  /\ pending' = Splice(pending, i)
  /\ threw' = FALSE
  /\ quiet
  /\ UNCHANGED <<regVars, styles, items, draft, hover, moveVars, tolerance, utilVars>>

-----------------------------------------------------------------------------
(* The documents offered to import *)

\* a LineString of one position and one of two
FLine1 == Feature("LineString", << <<0, 0>> >>, <<>>)
FLine2 == Feature("LineString", << <<0, 0>>, <<1, 0>> >>, [color |-> "red"])
\* a Polygon whose ring closes two vertices, and one whose ring closes three
FPoly2 == Feature("Polygon", << << <<0, 0>>, <<1, 0>>, <<0, 0>> >> >>, <<>>)
FPoly3 == Feature("Polygon", << << <<0, 0>>, <<1, 0>>, <<0, 1>>, <<0, 0>> >> >>, <<>>)
FPoint == Feature("Point", <<1, 0>>, [elevation |-> <<7>>])
FUnknown == Feature("MultiPoint", << <<0, 0>> >>, <<>>)

SampleFeatures == {FLine1, FLine2, FPoly2, FPoly3, FPoint, FUnknown}

\* the longest feature list of a sample document
MaxDocLen == 1

SeqsUpTo(S, n) == UNION {[1..k -> S] : k \in 0..n}

SampleDocs ==
  {Collection(fs) : fs \in SeqsUpTo(SampleFeatures, MaxDocLen)}
  \cup {[isObject |-> TRUE, type |-> "Feature", featuresIsArray |-> FALSE, features |-> <<>>]}

-----------------------------------------------------------------------------
(* The editor: the state main.js builds, and its input events *)

ToolNames == <<"explore", "points", "line", "polygon", "sector", "text", "move", "delete">>

\* HitDetector's default tolerance, in pixels
DefaultTolerance == 8

Angles == {60, 90}

\* what the user types in the text box: nothing, a blank, a letter
TextValues == {<<>>, <<" ">>, <<"a">>}

Init ==
  /\ tools = [i \in 1..Len(ToolNames) |->
                [name |-> ToolNames[i],
                 tool |-> IF ToolNames[i] = "explore" THEN NoName ELSE ToolNames[i]]]
  /\ registrationOrder = ToolNames
  /\ activeTool = "explore"
  /\ currentMode = "explore"
  /\ emitted = <<>>
  /\ ret = Undefined
  /\ threw = FALSE
  /\ lastOp = "init"
  /\ call = <<>>
  /\ styles = DefaultStyles
  /\ heap = <<>>
  /\ items = [t \in EntityTools |-> <<>>]
  /\ draft = [t \in EntityTools |-> NoObj]
  /\ hover = [t \in {"line", "polygon"} |-> NoCoord]
  /\ moveTarget = NoObj
  /\ moveOrigin = NoCoord
  /\ moveStart = NoCoord
  /\ drag = NoDrag
  /\ lastDrag = NoDrag
  /\ pending = <<>>
  /\ tolerance = DefaultTolerance
  /\ listeners = <<>>
  /\ timer = NoTimer
  /\ clock = 0
  /\ log = <<>>
  /\ alerts = <<>>

Next ==
  \/ \E p \in Pointers : OnClick(p)
  \/ OnFinish
  \/ \E p \in Pointers : OnMouseDown(p)
  \/ OnMouseUp
  \/ \E p \in Pointers : OnMouseMove(p)
  \/ \E m \in SeqRange(ToolNames) : OnSetMode(m)
  \/ \E deg \in Angles : OnSectorAngle(deg)
  \/ \E v \in TextValues : OnTextValue(v)
  \/ \E t \in EntityTools : OnCancel(t)
  \/ OnClearAllData
  \/ OnAppClearAll
  \/ \E json \in SampleDocs : OnImport(json)
  \/ \E i \in 1..Len(pending), e \in ElevResults : ResolveElevation(i, e)

Spec == Init /\ [][Next]_vars

-----------------------------------------------------------------------------
(* Sessions of the editor.  Each runs the handlers above from the state      *)
(* main.js builds, with the user keeping to the modes named.                 *)

\* drawing lines and polygons, importing and clearing
DrawModes == {"line", "polygon"}
DrawDocs == {Collection(<<f>>) : f \in {FLine1, FPoly2}}

NextDraw ==
  \/ \E p \in Pointers : OnClick(p)
  \/ OnFinish
  \/ \E p \in Pointers : OnMouseMove(p)
  \/ \E m \in DrawModes : OnSetMode(m)
  \/ \E t \in DrawModes : OnCancel(t)
  \/ \E json \in DrawDocs : OnImport(json)
  \/ OnClearAllData

SpecDraw == Init /\ [][NextDraw]_vars

\* placing sectors
NextSector ==
  \/ \E p \in Pointers : OnClick(p)
  \/ OnFinish
  \/ \E p \in Pointers : OnMouseMove(p)
  \/ OnSetMode("sector")
  \/ OnCancel("sector")
  \/ \E deg \in Angles : OnSectorAngle(deg)
  \/ \E i \in 1..Len(pending), e \in ElevResults : ResolveElevation(i, e)

SpecSector == Init /\ [][NextSector]_vars

\* placing text labels
NextText ==
  \/ \E p \in Pointers : OnClick(p)
  \/ OnFinish
  \/ OnSetMode("text")
  \/ OnCancel("text")
  \/ \E v \in TextValues : OnTextValue(v)

SpecText == Init /\ [][NextText]_vars

\* switching between tools with drafts pending
SwitchModes == {"line", "sector", "text", "delete"}

NextSwitch ==
  \/ \E p \in Pointers : OnClick(p)
  \/ OnFinish
  \/ \E p \in Pointers : OnMouseMove(p)
  \/ \E m \in SwitchModes : OnSetMode(m)

SpecSwitch == Init /\ [][NextSwitch]_vars

-----------------------------------------------------------------------------
(* The ToolManager on its own: register, unregister and setActive called     *)
(* directly, from a freshly constructed registry.                            *)

\* names offered to the registry (the empty string is a name like any other) and
\* instances (null, as for the explore placeholder, or a tool)
RegNames == {"", "points", "line"}
RegInstances == {NoName, "points"}

RegistryFrame ==
  /\ threw' = FALSE
  /\ alerts' = <<>>
  /\ UNCHANGED <<currentMode, styles, toolVars, pending, moveVars, tolerance, utilVars>>

CallRegister(name, tool) ==
  /\ lastOp' = "register"
  /\ call' = <<name, tool>>
  /\ Register(name, tool)
  /\ RegistryFrame

CallUnregister(name) ==
  /\ lastOp' = "unregister"
  /\ call' = <<name>>
  /\ Unregister(name)
  /\ RegistryFrame

CallSetActive(name) ==
  /\ lastOp' = "setActive"
  /\ call' = <<name>>
  /\ SetActive(name)
  /\ RegistryFrame

InitRegistry ==
  /\ tools = <<>>
  /\ registrationOrder = <<>>
  /\ activeTool = NoName
  /\ currentMode = "explore"
  /\ emitted = <<>>
  /\ ret = Undefined
  /\ threw = FALSE
  /\ lastOp = "init"
  /\ call = <<>>
  /\ styles = DefaultStyles
  /\ heap = <<>>
  /\ items = [t \in EntityTools |-> <<>>]
  /\ draft = [t \in EntityTools |-> NoObj]
  /\ hover = [t \in {"line", "polygon"} |-> NoCoord]
  /\ moveTarget = NoObj
  /\ moveOrigin = NoCoord
  /\ moveStart = NoCoord
  /\ drag = NoDrag
  /\ lastDrag = NoDrag
  /\ pending = <<>>
  /\ tolerance = DefaultTolerance
  /\ listeners = <<>>
  /\ timer = NoTimer
  /\ clock = 0
  /\ log = <<>>
  /\ alerts = <<>>

NextRegistry ==
  \/ \E name \in RegNames, tool \in RegInstances : CallRegister(name, tool)
  \/ \E name \in RegNames : CallUnregister(name)
  \/ \E name \in RegNames : CallSetActive(name)

SpecRegistry == InitRegistry /\ [][NextRegistry]_vars

-----------------------------------------------------------------------------
(* The HitDetector on its own: pick called directly on a scene of committed  *)
(* entities, with the tool list the caller chooses.                          *)

\* a scene holds at most MaxScene entities
MaxScene == 2

SceneCoords == {LatLng(a, b) : a \in 0..MaxCoord, b \in 0..MaxCoord}

\* entities as the tools commit them: a point (PointsTool.add), a two-vertex line
\* (PolylineTool.add, finish), a sector (SectorTool.add twice)
ScenePoint(c) ==
  Spread([lat |-> c.lat, lng |-> c.lng, elev |-> NullElev], DefaultStyles.points)
SceneLine(a, b) ==
  Spread([points |-> << [lat |-> a.lat, lng |-> a.lng, elev |-> NullElev],
                        [lat |-> b.lat, lng |-> b.lng, elev |-> NullElev] >>],
         DefaultStyles.line)
SceneSector(c) ==
  Spread([center |-> [lat |-> c.lat, lng |-> c.lng], radius |-> Num(0),
          bearing |-> Num(0), elev |-> NullElev], DefaultStyles.sector)

\* a polygon as PolygonTool.add and finish commit it: vertices without elevation
ScenePolygon(vs) ==
  Spread([points |-> [i \in 1..Len(vs) |-> [lat |-> vs[i].lat, lng |-> vs[i].lng]]],
         DefaultStyles.polygon)

SceneEntities ==
  {[tool |-> "points", obj |-> ScenePoint(c)] : c \in SceneCoords}
  \cup {[tool |-> "line", obj |-> SceneLine(LatLng(0, 0), LatLng(1, 1))],
        [tool |-> "sector", obj |-> SceneSector(LatLng(0, 1))]}

Scenes == SeqsUpTo(SceneEntities, MaxScene)

\* the collections of a scene: each entity in its tool's array, in scene order
SceneItems(scene) ==
  [t \in EntityTools |->
     LET mine(i) == scene[i].tool = t
     IN SelectSeq([i \in 1..Len(scene) |-> i], mine)]

\* the tool lists handed to pick
PickOrders == { <<"points", "line", "sector", "delete">>,
                <<"sector", "line", "points">>,
                <<"line">> }

\* tolerances set through HitDetector.setTolerance
Tolerances == {DefaultTolerance, 12}

\* hitDetector.pick(latlng, tools)
CallPick(latlng, toolList) ==
  /\ lastOp' = "pick"
  /\ call' = <<latlng, toolList>>
  /\ ret' = Pick(latlng, toolList)
  /\ threw' = FALSE
  /\ emitted' = <<>>
  /\ alerts' = <<>>
  /\ UNCHANGED <<regVars, styles, toolVars, pending, moveVars, tolerance, utilVars>>

\* hitDetector.pickForDelete(latlng, tools)
CallPickForDelete(latlng, toolList) ==
  /\ lastOp' = "pickForDelete"
  /\ call' = <<latlng, toolList>>
  /\ ret' = PickForDelete(latlng, toolList)
  /\ threw' = FALSE
  /\ emitted' = <<>>
  /\ alerts' = <<>>
  /\ UNCHANGED <<regVars, styles, toolVars, pending, moveVars, tolerance, utilVars>>

\* hitDetector.setTolerance(px)
CallSetTolerance(px) ==
  /\ lastOp' = "setTolerance"
  /\ call' = <<px>>
  /\ tolerance' = px
  /\ ret' = Undefined
  /\ threw' = FALSE
  /\ emitted' = <<>>
  /\ alerts' = <<>>
  /\ UNCHANGED <<regVars, styles, toolVars, pending, moveVars, utilVars>>

InitPick ==
  /\ tools = [i \in 1..Len(ToolNames) |->
                [name |-> ToolNames[i],
                 tool |-> IF ToolNames[i] = "explore" THEN NoName ELSE ToolNames[i]]]
  /\ registrationOrder = ToolNames
  /\ activeTool = "explore"
  /\ currentMode = "explore"
  /\ emitted = <<>>
  /\ ret = Undefined
  /\ threw = FALSE
  /\ lastOp = "init"
  /\ call = <<>>
  /\ styles = DefaultStyles
  /\ \E scene \in Scenes :
       /\ heap = [i \in 1..Len(scene) |-> scene[i].obj]
       /\ items = SceneItems(scene)
  /\ draft = [t \in EntityTools |-> NoObj]
  /\ hover = [t \in {"line", "polygon"} |-> NoCoord]
  /\ moveTarget = NoObj
  /\ moveOrigin = NoCoord
  /\ moveStart = NoCoord
  /\ drag = NoDrag
  /\ lastDrag = NoDrag
  /\ pending = <<>>
  /\ tolerance = DefaultTolerance
  /\ listeners = <<>>
  /\ timer = NoTimer
  /\ clock = 0
  /\ log = <<>>
  /\ alerts = <<>>

NextPick ==
  \/ \E latlng \in SceneCoords, toolList \in PickOrders : CallPick(latlng, toolList)
  \/ \E latlng \in SceneCoords, toolList \in PickOrders :
       CallPickForDelete(latlng, toolList)
  \/ \E px \in Tolerances : CallSetTolerance(px)

SpecPick == InitPick /\ [][NextPick]_vars

\* vertices whose projections are (0,0), (10,20) and (20,0)
HitA == LatLng(0, 0)
HitB == LatLng(0 - 2, 1)
HitC == LatLng(0, 2)

\* a line of three vertices, as PolylineTool.add thrice and finish commit it
SceneBentLine(a, b, c) ==
  Spread([points |-> << [lat |-> a.lat, lng |-> a.lng, elev |-> NullElev],
                        [lat |-> b.lat, lng |-> b.lng, elev |-> NullElev],
                        [lat |-> c.lat, lng |-> c.lng, elev |-> NullElev] >>],
         DefaultStyles.line)

-----------------------------------------------------------------------------
(* A session of moving and deleting: the editor as main.js builds it, holding *)
(* a scene of committed entities, with the pointer events of the map, the     *)
(* tool switches of the toolbar and the keyboard, and Escape / double click.  *)

MoveEntities ==
  {[tool |-> "points", obj |-> ScenePoint(c)] : c \in Pointers}
  \cup {[tool |-> "line", obj |-> SceneLine(LatLng(0, 0), LatLng(0, 2))],
        [tool |-> "sector", obj |-> SceneSector(LatLng(0, 1))],
        [tool |-> "polygon",
         obj |-> ScenePolygon(<<LatLng(0, 0), LatLng(1, 0), LatLng(1, 1)>>)]}

MoveScenes == SeqsUpTo(MoveEntities, MaxScene)

MoveModes == {"move", "delete"}

InitMove ==
  /\ tools = [i \in 1..Len(ToolNames) |->
                [name |-> ToolNames[i],
                 tool |-> IF ToolNames[i] = "explore" THEN NoName ELSE ToolNames[i]]]
  /\ registrationOrder = ToolNames
  /\ activeTool = "explore"
  /\ currentMode = "explore"
  /\ emitted = <<>>
  /\ ret = Undefined
  /\ threw = FALSE
  /\ lastOp = "init"
  /\ call = <<>>
  /\ styles = DefaultStyles
  /\ \E scene \in MoveScenes :
       /\ heap = [i \in 1..Len(scene) |-> scene[i].obj]
       /\ items = SceneItems(scene)
  /\ draft = [t \in EntityTools |-> NoObj]
  /\ hover = [t \in {"line", "polygon"} |-> NoCoord]
  /\ moveTarget = NoObj
  /\ moveOrigin = NoCoord
  /\ moveStart = NoCoord
  /\ drag = NoDrag
  /\ lastDrag = NoDrag
  /\ pending = <<>>
  /\ tolerance = DefaultTolerance
  /\ listeners = <<>>
  /\ timer = NoTimer
  /\ clock = 0
  /\ log = <<>>
  /\ alerts = <<>>

NextMove ==
  \/ \E p \in Pointers : OnMouseDown(p)
  \/ \E p \in Pointers : OnMouseMove(p)
  \/ OnMouseUp
  \/ \E p \in Pointers : OnClick(p)
  \/ OnFinish
  \/ \E m \in MoveModes : OnSetMode(m)

SpecMove == InitMove /\ [][NextMove]_vars

-----------------------------------------------------------------------------
(* A session of Move and Delete beside a pending draft: one committed entity *)
(* and one draft just begun (a first click, its lookup failed), then pointer *)
(* drags and Delete clicks.                                                  *)

\* the drafts a first click leaves: a line or polygon of one vertex, a sector of
\* radius 0, a text without its string yet
GuardDrafts ==
  UNION {{[tool |-> "line",
           obj |-> Spread([points |-> << [lat |-> c.lat, lng |-> c.lng, elev |-> NullElev] >>],
                          DefaultStyles.line)],
          [tool |-> "polygon", obj |-> ScenePolygon(<<c>>)],
          [tool |-> "sector", obj |-> SceneSector(c)],
          [tool |-> "text", obj |-> Spread([lat |-> c.lat, lng |-> c.lng], DefaultStyles.text)]}
         : c \in Pointers}

InitGuard ==
  /\ tools = [i \in 1..Len(ToolNames) |->
                [name |-> ToolNames[i],
                 tool |-> IF ToolNames[i] = "explore" THEN NoName ELSE ToolNames[i]]]
  /\ registrationOrder = ToolNames
  /\ activeTool = "explore"
  /\ currentMode = "explore"
  /\ emitted = <<>>
  /\ ret = Undefined
  /\ threw = FALSE
  /\ lastOp = "init"
  /\ call = <<>>
  /\ styles = DefaultStyles
  /\ \E e \in MoveEntities, d \in GuardDrafts :
       /\ heap = <<e.obj, d.obj>>
       /\ items = SceneItems(<<e>>)
       /\ draft = [t \in EntityTools |-> IF t = d.tool THEN 2 ELSE NoObj]
  /\ hover = [t \in {"line", "polygon"} |-> NoCoord]
  /\ moveTarget = NoObj
  /\ moveOrigin = NoCoord
  /\ moveStart = NoCoord
  /\ drag = NoDrag
  /\ lastDrag = NoDrag
  /\ pending = <<>>
  /\ tolerance = DefaultTolerance
  /\ listeners = <<>>
  /\ timer = NoTimer
  /\ clock = 0
  /\ log = <<>>
  /\ alerts = <<>>

NextGuard ==
  \/ \E p \in Pointers : OnMouseDown(p)
  \/ \E p \in Pointers : OnMouseMove(p)
  \/ OnMouseUp
  \/ \E p \in Pointers : OnClick(p)
  \/ \E m \in MoveModes : OnSetMode(m)

SpecGuard == InitGuard /\ [][NextGuard]_vars

-----------------------------------------------------------------------------
(* A session of drawing beside committed entities: sectors and lines drawn,  *)
(* finished, cancelled and re-angled.                                        *)

FrameModes == {"sector", "line"}

NextFrame ==
  \/ \E p \in Pointers : OnClick(p)
  \/ OnFinish
  \/ \E p \in Pointers : OnMouseMove(p)
  \/ \E m \in FrameModes : OnSetMode(m)
  \/ \E t \in FrameModes : OnCancel(t)
  \/ \E deg \in Angles : OnSectorAngle(deg)

SpecFrame == Init /\ [][NextFrame]_vars

-----------------------------------------------------------------------------
(* A session at the keyboard: tools chosen and drawings finished by keys,    *)
(* points and lines clicked in between.                                      *)

Keys == {"enter", "p", "l", "d", "z", "delete"}
KeyEvents == [key : Keys, ctrl : BOOLEAN, shift : BOOLEAN, typing : BOOLEAN]

NextKeys ==
  \/ \E p \in Pointers : OnClick(p)
  \/ \E e \in KeyEvents, confirmed \in BOOLEAN : OnKeyDown(e, confirmed)

SpecKeys == Init /\ [][NextKeys]_vars

-----------------------------------------------------------------------------
(* A session of restyling: points and sectors placed while the options panel *)
(* and the StyleManager change the styles.                                   *)

StyleModes == {"points", "sector"}
StyleColors == {"black", "red"}
StyleUpdates == {[angle |-> 90], [color |-> "blue", angle |-> 30]}

NextStyle ==
  \/ \E p \in Pointers : OnClick(p)
  \/ \E m \in StyleModes : OnSetMode(m)
  \/ \E t \in StyleModes, c \in StyleColors : OnOption(t, "color", c)
  \/ \E u \in StyleUpdates : CallSetStyle("sector", u)
  \/ \E t \in StyleModes : CallReset(t)
  \/ OnResetOptions

SpecStyle == Init /\ [][NextStyle]_vars

-----------------------------------------------------------------------------
(* A session of placing points, moving and deleting them while their         *)
(* elevation lookups are still out.                                          *)

LookupModes == {"points", "move", "delete"}

NextLookup ==
  \/ \E p \in Pointers : OnClick(p)
  \/ \E p \in Pointers : OnMouseDown(p)
  \/ \E p \in Pointers : OnMouseMove(p)
  \/ OnMouseUp
  \/ \E m \in LookupModes : OnSetMode(m)
  \/ \E i \in 1..Len(pending), e \in ElevResults : ResolveElevation(i, e)

SpecLookup == Init /\ [][NextLookup]_vars

-----------------------------------------------------------------------------
(* A session of importing: the editor as main.js builds it, files chosen in  *)
(* the import dialog, and the clear-all button between them.                 *)

\* a text label, a sector, and a Point whose properties.type no tool knows
FText == Feature("Point", <<1, 0>>, [type |-> "text", text |-> <<"a">>])
FSector ==
  Feature("Polygon", << << <<0, 0>>, <<1, 0>>, <<0, 1>>, <<0, 0>> >> >>,
          [type |-> "sector", center |-> [lat |-> 0, lng |-> 0], radius |-> Num(1),
           bearing |-> Num(0), angle |-> 60])
FTyped == Feature("Point", <<0, 1>>, [type |-> "waypoint"])

ImportFeatures == {FPoint, FText, FLine2, FPoly3, FSector, FUnknown, FTyped}

\* the longest feature list of an imported document
MaxImportLen == 2

\* parsed files of the wrong top-level shape: a string or number; a lone Feature; a
\* collection of another type that carries features; a FeatureCollection whose
\* features member is not an array
MisshapenDocs ==
  { [isObject |-> FALSE, type |-> Undefined, featuresIsArray |-> FALSE, features |-> <<>>],
    [isObject |-> TRUE, type |-> "Feature", featuresIsArray |-> FALSE, features |-> <<>>],
    [isObject |-> TRUE, type |-> "GeometryCollection", featuresIsArray |-> TRUE,
     features |-> <<FPoint>>],
    [isObject |-> TRUE, type |-> "FeatureCollection", featuresIsArray |-> FALSE,
     features |-> <<>>] }

ImportDocs ==
  {Collection(fs) : fs \in SeqsUpTo(ImportFeatures, MaxImportLen)} \cup MisshapenDocs

NextImport ==
  \/ \E json \in ImportDocs : OnImport(json)
  \/ OnClearAllData

SpecImport == Init /\ [][NextImport]_vars

\* importing documents some of whose features fail while being applied: a Point and a
\* Polygon feature without coordinates
FBarePoint == [type |-> "Feature", geometry |-> [type |-> "Point"], properties |-> <<>>]
FBarePolygon == [type |-> "Feature", geometry |-> [type |-> "Polygon"], properties |-> <<>>]

FailingFeatures == {FPoint, FText, FLine2, FPoly3, FBarePoint, FBarePolygon}

FailingDocs ==
  {Collection(fs) : fs \in SeqsUpTo(FailingFeatures, MaxImportLen)} \cup MisshapenDocs

NextFailing ==
  \/ \E json \in FailingDocs : OnImport(json)
  \/ OnClearAllData

SpecFailing == Init /\ [][NextFailing]_vars

-----------------------------------------------------------------------------
(* A session of exporting: a scene of committed entities, the export button  *)
(* and the clear-all button.                                                 *)

\* a text label as TextTool.fromGeoJSON commits it
SceneText(c) == [lat |-> c.lat, lng |-> c.lng, text |-> <<"a">>, color |-> "black", size |-> 14]

\* entities with their elevation lookups still unanswered (or failed) and answered
ExportEntities ==
  { [tool |-> "points", obj |-> ScenePoint(LatLng(0, 1))],
    [tool |-> "points", obj |-> [ScenePoint(LatLng(0, 1)) EXCEPT !.elev = <<7>>]],
    [tool |-> "line", obj |-> SceneBentLine(HitA, HitB, HitC)],
    [tool |-> "line",
     obj |-> [SceneBentLine(HitA, HitB, HitC) EXCEPT !.points[2].elev = <<7>>]],
    [tool |-> "polygon", obj |-> ScenePolygon(<<HitA, HitB, HitC, LatLng(1, 1)>>)],
    [tool |-> "sector", obj |-> SceneSector(LatLng(0, 1))],
    [tool |-> "sector", obj |-> [SceneSector(LatLng(0, 1)) EXCEPT !.elev = <<7>>]],
    [tool |-> "text", obj |-> SceneText(LatLng(1, 0))] }

InitExport ==
  /\ tools = [i \in 1..Len(ToolNames) |->
                [name |-> ToolNames[i],
                 tool |-> IF ToolNames[i] = "explore" THEN NoName ELSE ToolNames[i]]]
  /\ registrationOrder = ToolNames
  /\ activeTool = "explore"
  /\ currentMode = "explore"
  /\ emitted = <<>>
  /\ ret = Undefined
  /\ threw = FALSE
  /\ lastOp = "init"
  /\ call = <<>>
  /\ styles = DefaultStyles
  /\ \E scene \in SeqsUpTo(ExportEntities, MaxScene) :
       /\ heap = [i \in 1..Len(scene) |-> scene[i].obj]
       /\ items = SceneItems(scene)
  /\ draft = [t \in EntityTools |-> NoObj]
  /\ hover = [t \in {"line", "polygon"} |-> NoCoord]
  /\ moveTarget = NoObj
  /\ moveOrigin = NoCoord
  /\ moveStart = NoCoord
  /\ drag = NoDrag
  /\ lastDrag = NoDrag
  /\ pending = <<>>
  /\ tolerance = DefaultTolerance
  /\ listeners = <<>>
  /\ timer = NoTimer
  /\ clock = 0
  /\ log = <<>>
  /\ alerts = <<>>

NextExport ==
  \/ OnExport
  \/ OnClearAllData

SpecExport == InitExport /\ [][NextExport]_vars

-----------------------------------------------------------------------------
(* The hit test on its own: hitTest called directly with a pointer in screen *)
(* pixels on a committed line, bent line or polygon.                         *)

HitEntities ==
  { [tool |-> "line", obj |-> SceneLine(HitA, HitC)],
    [tool |-> "line", obj |-> SceneBentLine(HitA, HitB, HitC)],
    [tool |-> "polygon", obj |-> ScenePolygon(<<HitA, HitB, HitC>>)] }

HitScenes == SeqsUpTo(HitEntities, MaxScene) \ {<<>>}

\* pointer positions in screen pixels: on, beside and beyond the base (0,0)-(20,0)
HitPixels == {[x |-> x, y |-> y] : x \in {0 - 8, 0, 10, 20, 28}, y \in {0, 8}}

HitTolerances == {1, DefaultTolerance, 12}

\* hitDetector.hitTest(item, mousePx)
CallHitTest(item, mousePx) ==
  /\ lastOp' = "hitTest"
  /\ call' = <<item, mousePx>>
  /\ ret' = HitTest(heap[item], mousePx)
  /\ threw' = FALSE
  /\ emitted' = <<>>
  /\ alerts' = <<>>
  /\ UNCHANGED <<regVars, styles, toolVars, pending, moveVars, tolerance, utilVars>>

InitHit ==
  /\ tools = [i \in 1..Len(ToolNames) |->
                [name |-> ToolNames[i],
                 tool |-> IF ToolNames[i] = "explore" THEN NoName ELSE ToolNames[i]]]
  /\ registrationOrder = ToolNames
  /\ activeTool = "explore"
  /\ currentMode = "explore"
  /\ emitted = <<>>
  /\ ret = Undefined
  /\ threw = FALSE
  /\ lastOp = "init"
  /\ call = <<>>
  /\ styles = DefaultStyles
  /\ \E scene \in HitScenes :
       /\ heap = [i \in 1..Len(scene) |-> scene[i].obj]
       /\ items = SceneItems(scene)
  /\ draft = [t \in EntityTools |-> NoObj]
  /\ hover = [t \in {"line", "polygon"} |-> NoCoord]
  /\ moveTarget = NoObj
  /\ moveOrigin = NoCoord
  /\ moveStart = NoCoord
  /\ drag = NoDrag
  /\ lastDrag = NoDrag
  /\ pending = <<>>
  /\ tolerance = DefaultTolerance
  /\ listeners = <<>>
  /\ timer = NoTimer
  /\ clock = 0
  /\ log = <<>>
  /\ alerts = <<>>

NextHit ==
  \/ \E item \in 1..Len(heap), mousePx \in HitPixels : CallHitTest(item, mousePx)
  \/ \E px \in HitTolerances : CallSetTolerance(px)

SpecHit == InitHit /\ [][NextHit]_vars

-----------------------------------------------------------------------------
(* The debounced elevation lookup on its own: calls arriving as time passes, *)
(* the timeout firing, the lookup resolving.                                 *)

\* the delay getElevationDebounced is built with, in milliseconds
DebounceDelay == 300
\* time passes in steps of TickMs milliseconds, up to MaxTime
TickMs == 100
MaxTime == 700
\* at most MaxCalls calls are made
MaxCalls == 3

\* the calls made so far
CallsMade == {k \in 1..Len(log) : log[k].op = "call"}

\* getElevationDebounced(lat, lng, callback): clearTimeout(timer), then a new timeout
\* of DebounceDelay holding these arguments.  cb names the closure passed as callback,
\* a new one for every call
CallGetElevationDebounced(p) ==
  LET cb == Cardinality(CallsMade) + 1 IN
  /\ Cardinality(CallsMade) < MaxCalls
  /\ lastOp' = "getElevationDebounced"
  /\ call' = <<p.lat, p.lng, cb>>
  /\ timer' = [lat |-> p.lat, lng |-> p.lng, cb |-> cb, due |-> clock + DebounceDelay]
  /\ log' = Append(log, [op |-> "call", at |-> clock, lat |-> p.lat, lng |-> p.lng,
                         cb |-> cb, elev |-> NullElev])
  /\ threw' = FALSE
  /\ emitted' = <<>> /\ ret' = Undefined /\ alerts' = <<>>
  /\ UNCHANGED <<regVars, styles, toolVars, pending, moveVars, tolerance, listeners, clock>>

\* the timeout fires, at its due time or later: the debounced function runs up to its
\* await, getElevation(lat, lng) being in flight from then on.  A timeout that has
\* fired is no longer set
TimerFires ==
  /\ timer # NoTimer
  /\ clock >= timer.due
  /\ lastOp' = "timeout"
  /\ pending' = Append(pending, [kind |-> "debounced", lat |-> timer.lat,
                                 lng |-> timer.lng, cb |-> timer.cb])
  /\ log' = Append(log, [op |-> "lookup", at |-> clock, lat |-> timer.lat,
                         lng |-> timer.lng, cb |-> timer.cb, elev |-> NullElev])
  /\ timer' = NoTimer
  /\ threw' = FALSE
  /\ quiet
  /\ UNCHANGED <<regVars, styles, toolVars, moveVars, tolerance, listeners, clock>>

\* a resolution that hands every result, null included, to the callback
ResolveDebouncedAlways(i, e) ==
  /\ pending[i].kind = "debounced"
  /\ lastOp' = "resolve"
  /\ pending' = Splice(pending, i)
  /\ log' = Append(log, [op |-> "callback", at |-> clock, lat |-> pending[i].lat,
                         lng |-> pending[i].lng, cb |-> pending[i].cb, elev |-> e])
  /\ threw' = FALSE
  /\ quiet
  /\ UNCHANGED <<regVars, styles, toolVars, moveVars, tolerance, listeners, timer, clock>>

\* the lookup of the debounced function resolves with e: callback(elev) runs if elev is
\* not null (the callbacks passed are functions)
ResolveDebounced(i, e) ==
  /\ pending[i].kind = "debounced"
  /\ lastOp' = "resolve"
  /\ pending' = Splice(pending, i)
  /\ log' = IF e # NullElev
              THEN Append(log, [op |-> "callback", at |-> clock, lat |-> pending[i].lat,
                                lng |-> pending[i].lng, cb |-> pending[i].cb, elev |-> e])
              ELSE log
  /\ threw' = FALSE
  /\ quiet
  /\ UNCHANGED <<regVars, styles, toolVars, moveVars, tolerance, listeners, timer, clock>>

\* TickMs milliseconds pass
TimePasses ==
  /\ clock + TickMs <= MaxTime
  /\ clock' = clock + TickMs
  /\ lastOp' = "time"
  /\ threw' = FALSE
  /\ quiet
  /\ UNCHANGED <<regVars, styles, toolVars, pending, moveVars, tolerance, listeners,
                 timer, log>>

NextDebounce ==
  \/ \E p \in Pointers : CallGetElevationDebounced(p)
  \/ TimerFires
  \/ \E i \in 1..Len(pending), e \in ElevResults : ResolveDebounced(i, e)
  \/ TimePasses

SpecDebounce == Init /\ [][NextDebounce]_vars

-----------------------------------------------------------------------------
(* A session of late lookups: points and sectors placed, lines begun, all of  *)
(* them deleted and cleared, their lookups resolving at any time after.      *)

LateModes == {"points", "line", "sector", "delete"}

NextLate ==
  \/ \E p \in Pointers : OnClick(p)
  \/ \E m \in LateModes : OnSetMode(m)
  \/ OnClearAllData
  \/ \E i \in 1..Len(pending), e \in ElevResults : ResolveElevation(i, e)

SpecLate == Init /\ [][NextLate]_vars

-----------------------------------------------------------------------------
(* A session of choosing modes: appState.setMode called with the names of    *)
(* the registered tools and with a name no tool is registered under, the     *)
(* map clicked in between.                                                   *)

ModeNames == SeqRange(ToolNames) \cup {"measure"}

NextModes ==
  \/ \E mode \in ModeNames : OnSetMode(mode)
  \/ OnClick(LatLng(0, 0))

SpecModes == Init /\ [][NextModes]_vars

-----------------------------------------------------------------------------
(* core/EventBus.js on its own: listeners subscribed with on() and once(),   *)
(* events emitted.  A callback is [id, once, throws]: who it is, whether it  *)
(* is the wrapper once() builds, and whether the function given throws.      *)

\* at most MaxListeners subscriptions and MaxEmits emits are made
MaxListeners == 3
MaxEmits == 2

BusEvent == "redraw"

\* the array listeners.get(event), empty when the Map has no such key
ListenersOf(event) == IF event \in DOMAIN listeners THEN listeners[event] ELSE <<>>

\* the Map with event set to the array callbacks, the key deleted when it is empty
WithListeners(event, callbacks) ==
  IF callbacks = <<>>
    THEN [e \in (DOMAIN listeners) \ {event} |-> listeners[e]]
    ELSE [e \in (DOMAIN listeners) \cup {event} |->
            IF e = event THEN callbacks ELSE listeners[e]]

\* off(event, callback) on the array: splice at indexOf(callback), if it is there
Off(callbacks, id) ==
  LET at == {i \in 1..Len(callbacks) : callbacks[i].id = id}
  IN IF at = {} THEN callbacks
     ELSE LET index == CHOOSE i \in at : \A j \in at : i <= j
          IN SubSeq(callbacks, 1, index - 1) \o SubSeq(callbacks, index + 1, Len(callbacks))

\* callbacks.forEach(...) of emit from index k on, n the length the array had when
\* forEach began: forEach reads the live array index by index, and an index beyond
\* its present length is passed over.  A once() wrapper calls off() after its
\* callback returned; a throw is caught by emit.  ran lists the callbacks invoked
RECURSIVE EmitFrom(_, _, _, _)
EmitFrom(callbacks, k, n, ran) ==
  IF k > n THEN [callbacks |-> callbacks, ran |-> ran]
  ELSE IF k > Len(callbacks) THEN EmitFrom(callbacks, k + 1, n, ran)
  ELSE LET callback == callbacks[k]
       IN EmitFrom(IF callback.once /\ ~callback.throws
                     THEN Off(callbacks, callback.id) ELSE callbacks,
                   k + 1, n, Append(ran, callback.id))

\* the subscriptions made so far
Subscribed == {k \in 1..Len(log) : log[k].op = "on"}
\* the emits made so far
Emits == {k \in 1..Len(log) : log[k].op = "emit"}

BusFrame ==
  /\ threw' = FALSE
  /\ emitted' = <<>> /\ ret' = Undefined /\ alerts' = <<>>
  /\ UNCHANGED <<regVars, styles, toolVars, pending, moveVars, tolerance, timer, clock>>

\* eventBus.on(event, callback), callback a function
CallOn(throws) ==
  LET callback == [id |-> Cardinality(Subscribed) + 1, once |-> FALSE, throws |-> throws] IN
  /\ Cardinality(Subscribed) < MaxListeners
  /\ lastOp' = "on"
  /\ call' = <<BusEvent, callback>>
  /\ listeners' = WithListeners(BusEvent, Append(ListenersOf(BusEvent), callback))
  /\ log' = Append(log, [op |-> "on", id |-> callback.id, once |-> FALSE,
                         before |-> <<>>, ran |-> <<>>])
  /\ BusFrame

\* eventBus.once(event, callback): on(event, wrapper)
CallOnce(throws) ==
  LET wrapper == [id |-> Cardinality(Subscribed) + 1, once |-> TRUE, throws |-> throws] IN
  /\ Cardinality(Subscribed) < MaxListeners
  /\ lastOp' = "once"
  /\ call' = <<BusEvent, wrapper>>
  /\ listeners' = WithListeners(BusEvent, Append(ListenersOf(BusEvent), wrapper))
  /\ log' = Append(log, [op |-> "on", id |-> wrapper.id, once |-> TRUE,
                         before |-> <<>>, ran |-> <<>>])
  /\ BusFrame

\* eventBus.emit(event, data).  The history keeps who was subscribed when the emit
\* began and who was invoked, both in order
CallEmit ==
  LET before == ListenersOf(BusEvent)
      r == EmitFrom(before, 1, Len(before), <<>>)
  IN /\ Cardinality(Emits) < MaxEmits
     /\ lastOp' = "emit"
     /\ call' = <<BusEvent>>
     /\ listeners' = IF BusEvent \in DOMAIN listeners
                       THEN WithListeners(BusEvent, r.callbacks) ELSE listeners
     /\ log' = Append(log, [op |-> "emit", id |-> 0, once |-> FALSE,
                            before |-> [i \in 1..Len(before) |-> before[i].id],
                            ran |-> r.ran])
     /\ BusFrame

NextBus ==
  \/ \E throws \in BOOLEAN : CallOn(throws)
  \/ \E throws \in BOOLEAN : CallOnce(throws)
  \/ CallEmit

SpecBus == Init /\ [][NextBus]_vars

-----------------------------------------------------------------------------
(* GeoUtils.sectorCoordinates on its own: a sector chosen, then the call.    *)

\* sectors have angles of 0..MaxAngle degrees
MaxAngle == 30
WedgeBearings == {0, 45, 90, 350}
Wedges == [center : {LatLng(0, 0)}, radius : {1000}, bearing : WedgeBearings,
           angle : 0..MaxAngle]

\* GeoUtils.sectorCoordinates(sector) on the sector chosen
CallSectorCoordinates ==
  /\ lastOp = "init"
  /\ lastOp' = "sectorCoordinates"
  /\ ret' = SectorCoordinates(call[1])
  /\ threw' = FALSE
  /\ emitted' = <<>>
  /\ alerts' = <<>>
  /\ UNCHANGED <<call, regVars, styles, toolVars, pending, moveVars, tolerance, utilVars>>

InitWedge ==
  /\ tools = [i \in 1..Len(ToolNames) |->
                [name |-> ToolNames[i],
                 tool |-> IF ToolNames[i] = "explore" THEN NoName ELSE ToolNames[i]]]
  /\ registrationOrder = ToolNames
  /\ activeTool = "explore"
  /\ currentMode = "explore"
  /\ emitted = <<>>
  /\ ret = Undefined
  /\ threw = FALSE
  /\ lastOp = "init"
  /\ \E sector \in Wedges : call = <<sector>>
  /\ styles = DefaultStyles
  /\ heap = <<>>
  /\ items = [t \in EntityTools |-> <<>>]
  /\ draft = [t \in EntityTools |-> NoObj]
  /\ hover = [t \in {"line", "polygon"} |-> NoCoord]
  /\ moveTarget = NoObj
  /\ moveOrigin = NoCoord
  /\ moveStart = NoCoord
  /\ drag = NoDrag
  /\ lastDrag = NoDrag
  /\ pending = <<>>
  /\ tolerance = DefaultTolerance
  /\ listeners = <<>>
  /\ timer = NoTimer
  /\ clock = 0
  /\ log = <<>>
  /\ alerts = <<>>

NextWedge == CallSectorCoordinates

SpecWedge == InitWedge /\ [][NextWedge]_vars

-----------------------------------------------------------------------------
(* The classification of a feature on its own: a feature and an order of the *)
(* five entity tools chosen, then the scan importGeoJSON makes for a tool.   *)

\* geometry types offered (the last is a feature without geometry) and values of
\* properties.type (the first two: no properties, properties without type)
ClassGeometries == {"Point", "LineString", "Polygon", "MultiPoint", Undefined}
ClassTypes == {"no properties", "no type", "", "text", "sector", "waypoint"}

ClassFeature(g, t) ==
  (IF g = Undefined THEN <<>> ELSE "geometry" :> [type |-> g])
  @@ (CASE t = "no properties" -> <<>>
        [] t = "no type"       -> "properties" :> [name |-> "a"]
        [] OTHER               -> "properties" :> [type |-> t])

ClassFeatures == {ClassFeature(g, t) : g \in ClassGeometries, t \in ClassTypes}

\* every order in which the five entity tools can stand in the registry
ToolOrders ==
  {o \in [1..Cardinality(EntityTools) -> EntityTools] :
     \A i, j \in DOMAIN o : o[i] = o[j] => i = j}

\* the inner loop of importGeoJSON on the feature and the tool list chosen
CallFindTool ==
  /\ lastOp = "init"
  /\ lastOp' = "findTool"
  /\ ret' = FirstAccepting(call[2], call[1], 1)
  /\ threw' = FALSE
  /\ emitted' = <<>>
  /\ alerts' = <<>>
  /\ UNCHANGED <<call, regVars, styles, toolVars, pending, moveVars, tolerance, utilVars>>

InitClassify ==
  /\ tools = [i \in 1..Len(ToolNames) |->
                [name |-> ToolNames[i],
                 tool |-> IF ToolNames[i] = "explore" THEN NoName ELSE ToolNames[i]]]
  /\ registrationOrder = ToolNames
  /\ activeTool = "explore"
  /\ currentMode = "explore"
  /\ emitted = <<>>
  /\ ret = Undefined
  /\ threw = FALSE
  /\ lastOp = "init"
  /\ \E f \in ClassFeatures, o \in ToolOrders : call = <<f, o>>
  /\ styles = DefaultStyles
  /\ heap = <<>>
  /\ items = [t \in EntityTools |-> <<>>]
  /\ draft = [t \in EntityTools |-> NoObj]
  /\ hover = [t \in {"line", "polygon"} |-> NoCoord]
  /\ moveTarget = NoObj
  /\ moveOrigin = NoCoord
  /\ moveStart = NoCoord
  /\ drag = NoDrag
  /\ lastDrag = NoDrag
  /\ pending = <<>>
  /\ tolerance = DefaultTolerance
  /\ listeners = <<>>
  /\ timer = NoTimer
  /\ clock = 0
  /\ log = <<>>
  /\ alerts = <<>>

NextClassify == CallFindTool

SpecClassify == InitClassify /\ [][NextClassify]_vars

-----------------------------------------------------------------------------
(* GeoUtils.pointInPolygon on its own: a point and a vertex list chosen from *)
(* a grid, then the call.                                                    *)

\* vertices have coordinates 0..MaxGrid, points reach one step beyond on every side
MaxGrid == 2
\* a vertex list holds at most MaxRing vertices
MaxRing == 4

GridVertices == {LatLng(a, b) : a \in 0..MaxGrid, b \in 0..MaxGrid}
GridPoints == {LatLng(a, b) : a \in (0 - 1)..(MaxGrid + 1), b \in (0 - 1)..(MaxGrid + 1)}
GridRings == UNION {[1..n -> GridVertices] : n \in 0..MaxRing}

\* GeoUtils.pointInPolygon(point, polygon) on the arguments chosen
CallPointInPolygon ==
  /\ lastOp = "init"
  /\ lastOp' = "pointInPolygon"
  /\ ret' = PointInPolygon(call[1], call[2])
  /\ threw' = FALSE
  /\ emitted' = <<>>
  /\ alerts' = <<>>
  /\ UNCHANGED <<call, regVars, styles, toolVars, pending, moveVars, tolerance, utilVars>>

InitGeometry ==
  /\ tools = [i \in 1..Len(ToolNames) |->
                [name |-> ToolNames[i],
                 tool |-> IF ToolNames[i] = "explore" THEN NoName ELSE ToolNames[i]]]
  /\ registrationOrder = ToolNames
  /\ activeTool = "explore"
  /\ currentMode = "explore"
  /\ emitted = <<>>
  /\ ret = Undefined
  /\ threw = FALSE
  /\ lastOp = "init"
  /\ \E point \in GridPoints, polygon \in GridRings : call = <<point, polygon>>
  /\ styles = DefaultStyles
  /\ heap = <<>>
  /\ items = [t \in EntityTools |-> <<>>]
  /\ draft = [t \in EntityTools |-> NoObj]
  /\ hover = [t \in {"line", "polygon"} |-> NoCoord]
  /\ moveTarget = NoObj
  /\ moveOrigin = NoCoord
  /\ moveStart = NoCoord
  /\ drag = NoDrag
  /\ lastDrag = NoDrag
  /\ pending = <<>>
  /\ tolerance = DefaultTolerance
  /\ listeners = <<>>
  /\ timer = NoTimer
  /\ clock = 0
  /\ log = <<>>
  /\ alerts = <<>>

NextGeometry == CallPointInPolygon

SpecGeometry == InitGeometry /\ [][NextGeometry]_vars

-----------------------------------------------------------------------------
(* Properties of the drawing session (SpecDraw) *)

\* C1: every entity in the Polyline tool's committed collection has at least 2
\* vertices and every entity in the Polygon tool's committed collection has at
\* least 3, whatever operations (add, finish, cancel, pointer-move, import) came before
CommittedEntitiesValid ==
  /\ \A i \in 1..Len(items["line"]) : Len(heap[items["line"][i]].points) >= 2
  /\ \A i \in 1..Len(items["polygon"]) : Len(heap[items["polygon"][i]].points) >= 3

\* C2: PolygonTool.finish() on a draft of exactly 2 vertices leaves the polygon
\* collection as it was; on a draft of exactly 3 vertices it appends that draft,
\* unchanged, as the last element; either way the tool then has no draft and no hover
PolygonFinishCommitsFromThree ==
  [][ (lastOp' = "finish" /\ GetActive = "polygon" /\ draft["polygon"] # NoObj)
        => LET d == draft["polygon"]
               n == Len(heap[d].points)
           IN /\ (n = 2) => items'["polygon"] = items["polygon"]
              /\ (n = 3) => /\ items'["polygon"] = Append(items["polygon"], d)
                            /\ heap'[d] = heap[d]
              /\ (n \in {2, 3}) => /\ draft'["polygon"] = NoObj
                                   /\ hover'["polygon"] = NoCoord ]_vars

\* C2 happens: a finish has appended a three-vertex draft behind an earlier polygon
PolygonFinishCommitted ==
  /\ lastOp = "finish"
  /\ activeTool = "polygon"
  /\ Len(items["polygon"]) = 2
  /\ Len(heap[items["polygon"][2]].points) = 3
  /\ draft["polygon"] = NoObj
  /\ hover["polygon"] = NoCoord

\* C3: PolylineTool.finish() appends the draft to the line collection if and only if
\* the draft has at least 2 vertices; otherwise (fewer vertices, or no draft) the
\* collection is unchanged; it never throws and the tool has no draft afterwards
PolylineFinishCommitsIffTwo ==
  [][ (lastOp' = "finish" /\ GetActive = "line")
        => LET d == draft["line"]
               commits == d # NoObj /\ Len(heap[d].points) >= 2
           IN /\ items'["line"] = IF commits THEN Append(items["line"], d) ELSE items["line"]
              /\ \A t \in EntityTools \ {"line"} : items'[t] = items[t]
              /\ heap' = heap
              /\ ~threw'
              /\ draft'["line"] = NoObj ]_vars

\* C3 happens: a finish has committed a line, and a one-vertex draft was discarded
\* (its object is in no collection and is no draft)
PolylineFinishBothWays ==
  /\ lastOp = "finish"
  /\ activeTool = "line"
  /\ draft["line"] = NoObj
  /\ \E i \in 1..Len(items["line"]) : Len(heap[items["line"][i]].points) >= 2
  /\ \E r \in 1..Len(heap) :
       /\ Has(heap[r], "style")
       /\ Len(heap[r].points) = 1
       /\ r \notin SeqRange(items["line"])

\* C9: after clearAllData() every tool's committed collection is empty and every
\* tool has no pending draft
ClearAllDataLeavesNothing ==
  lastOp = "clearAllData"
    => /\ \A t \in EntityTools : items[t] = <<>>
       /\ \A t \in EntityTools : draft[t] = NoObj

-----------------------------------------------------------------------------
(* Properties of the text session (SpecText) *)

\* C4: TextTool.finish() on a draft created by TextTool.add() raises no error and
\* leaves the tool without a draft; it appends the draft if the draft's trimmed text
\* is non-empty and leaves the text collection unchanged if it is empty (a draft
\* holding no text has the empty text)
TextFinishDiscardsEmpty ==
  [][ (lastOp' = "finish" /\ GetActive = "text" /\ draft["text"] # NoObj)
        => LET d == draft["text"]
               text == IF Has(heap[d], "text") THEN heap[d].text ELSE <<>>
           IN /\ ~threw'
              /\ draft'["text"] = NoObj
              /\ items'["text"] = IF Trim(text) # <<>> THEN Append(items["text"], d)
                                                       ELSE items["text"] ]_vars

-----------------------------------------------------------------------------
(* Properties of the sector session (SpecSector) *)

\* C5: the first add() of the Sector tool creates a draft and leaves the sector
\* collection unchanged; the collection changes only by an add() issued while a draft
\* is pending, which appends that draft as it is and clears it: pointer-move, finish,
\* cancel and setAngle never append
SectorEntersBySecondAddOnly ==
  [][ /\ (lastOp' = "click" /\ GetActive = "sector" /\ draft["sector"] = NoObj)
           => (draft'["sector"] # NoObj /\ items'["sector"] = items["sector"])
      /\ (items'["sector"] # items["sector"])
           => /\ lastOp' = "click"
              /\ GetActive = "sector"
              /\ draft["sector"] # NoObj
              /\ items'["sector"] = Append(items["sector"], draft["sector"])
              /\ heap' = heap
              /\ draft'["sector"] = NoObj ]_vars

-----------------------------------------------------------------------------
(* Properties of the switching session (SpecSwitch) *)

\* the events main.js routes to the active tool
RoutedOps == {"click", "finish", "mousedown", "mouseup", "mousemove"}

\* C6: a pending draft of tool A survives, with the same fields, vertices and hover,
\* every change of the active tool and every event routed to another tool B, so that
\* back on A the next add()/finish() continues from it
SwitchKeepsDrafts ==
  [][ \A t \in EntityTools :
        ( /\ draft[t] # NoObj
          /\ \/ lastOp' = "setMode"
             \/ (lastOp' \in RoutedOps /\ GetActive # t) )
          => /\ draft'[t] = draft[t]
             /\ heap'[draft[t]] = heap[draft[t]]
             /\ (t \in DOMAIN hover) => hover'[t] = hover[t] ]_vars

\* C6 happens: the user is back on the Line tool, coming from the Sector tool where a
\* click started a sector, and the line draft of two vertices is still pending
BackOnPendingDraft ==
  /\ lastOp = "setMode"
  /\ activeTool = "line"
  /\ emitted # <<>>
  /\ emitted[1].previousName = "sector"
  /\ draft["sector"] # NoObj
  /\ draft["line"] # NoObj
  /\ Len(heap[draft["line"]].points) = 2
  /\ draft["line"] < draft["sector"]

-----------------------------------------------------------------------------
(* Properties of the registry on its own (SpecRegistry) *)

\* C7: whenever at least one tool name is registered, the active name is the name
\* of a registered tool; the active name is null only when nothing is registered
ActiveToolIsRegistered ==
  /\ (tools # <<>>) => HasTool(activeTool)
  /\ (activeTool = NoName) => (tools = <<>>)

\* C8: setActive(name) with an unregistered name returns false, leaves the active
\* tool unchanged and emits nothing; with a registered name it returns true, makes
\* name active and emits exactly one tool:changed event carrying name and the name
\* that was active before
SetActiveContract ==
  [][ (lastOp' = "setActive")
        => LET name == call'[1] IN
           /\ UNCHANGED <<tools, registrationOrder>>
           /\ IF HasTool(name)
                THEN /\ ret' = "true"
                     /\ activeTool' = name
                     /\ Len(emitted') = 1
                     /\ emitted'[1].event = "tool:changed"
                     /\ emitted'[1].name = name
                     /\ emitted'[1].previousName = activeTool
                ELSE /\ ret' = "false"
                     /\ activeTool' = activeTool
                     /\ emitted' = <<>> ]_vars

\* C8 happens: a setActive has moved the active tool from one registered name to
\* another while a third name is not registered
SetActiveSwitched ==
  /\ lastOp = "setActive"
  /\ ret = "true"
  /\ Len(emitted) = 1
  /\ emitted[1].name = activeTool
  /\ emitted[1].previousName \notin {NoName, activeTool}
  /\ \E name \in RegNames : ~HasTool(name)

-----------------------------------------------------------------------------
(* Properties of the hit detector on its own (SpecPick) *)

\* the entities pick scans, in scan order: tool by tool, each in collection order
RECURSIVE ScanOrder(_)
ScanOrder(toolList) ==
  IF toolList = <<>> THEN <<>>
  ELSE ExtractItems(Head(toolList)) \o ScanOrder(Tail(toolList))

\* positions of the scan whose entity passes the hit test at mousePx
Passing(scan, mousePx) == {i \in 1..Len(scan) : HitTest(heap[scan[i]], mousePx)}

\* squared pixel distance from mousePx to a point entity
PointDistSq(o, mousePx) ==
  Sq(LatLngToScreen(o).x - mousePx.x) + Sq(LatLngToScreen(o).y - mousePx.y)

\* C10: pick(latlng, tools) returns the first entity of the scan order that passes
\* the hit test, whether or not a later one is nearer, and null when none passes
PickReturnsFirstHit ==
  (lastOp = "pick")
    => LET mousePx == LatLngToScreen(call[1])
           scan == ScanOrder(call[2])
           hits == Passing(scan, mousePx)
       IN IF hits = {} THEN ret = NoObj
          ELSE ret = scan[CHOOSE i \in hits : \A j \in hits : i <= j]

\* C10 happens: two points pass, the later one strictly nearer to the pointer, and
\* pick has returned the earlier one
PickPassedOverNearer ==
  /\ lastOp = "pick"
  /\ LET mousePx == LatLngToScreen(call[1])
         scan == ScanOrder(call[2])
         hits == Passing(scan, mousePx)
     IN \E i \in hits, j \in hits :
          /\ i < j
          /\ ret = scan[i]
          /\ Has(heap[scan[i]], "symbol") /\ Has(heap[scan[j]], "symbol")
          /\ PointDistSq(heap[scan[j]], mousePx) < PointDistSq(heap[scan[i]], mousePx)

\* C11: pickForDelete(latlng, tools) returns null exactly when pick(latlng, tools)
\* returns null, and otherwise the returned collection holds, at the returned index,
\* the very entity pick returns
PickForDeleteScansAsPick ==
  (lastOp = "pickForDelete")
    => LET picked == Pick(call[1], call[2])
       IN /\ (ret = NoHit) <=> (picked = NoObj)
          /\ (ret # NoHit) => /\ ret.index \in 1..Len(items[ret.tool])
                              /\ items[ret.tool][ret.index] = picked

\* C11 happens: pickForDelete has returned an entity that is neither the first of its
\* collection nor in the first tool of the list
PickForDeleteFoundLater ==
  /\ lastOp = "pickForDelete"
  /\ ret # NoHit
  /\ ret.index > 1
  /\ ret.tool # call[2][1]
  /\ Pick(call[1], call[2]) = items[ret.tool][ret.index]

-----------------------------------------------------------------------------
(* Properties of the hit test on its own (SpecHit) *)

\* the references a collection holds
Members(tool) == {items[tool][i] : i \in 1..Len(items[tool])}

\* squared distance in pixels from p to the segment a-b, as the fraction num/den:
\* to the nearer endpoint when the foot of the perpendicular falls outside the
\* segment, else the perpendicular distance (cross product over length)
SegmentDistSq(p, a, b) ==
  LET ux == b.x - a.x
      uy == b.y - a.y
      wx == p.x - a.x
      wy == p.y - a.y
      dot == wx * ux + wy * uy
      l2 == ux * ux + uy * uy
  IN IF dot <= 0 THEN [num |-> wx * wx + wy * wy, den |-> 1]
     ELSE IF dot >= l2
       THEN [num |-> (p.x - b.x) * (p.x - b.x) + (p.y - b.y) * (p.y - b.y), den |-> 1]
     ELSE [num |-> (wx * uy - wy * ux) * (wx * uy - wy * ux), den |-> l2]

\* p is nearer than tol pixels to the segment between vertices i and j of item
NearSegment(item, i, j, p, tol) ==
  LET d == SegmentDistSq(p, LatLngToScreen(item.points[i]), LatLngToScreen(item.points[j]))
  IN tol > 0 /\ d.num < tol * tol * d.den

\* C12: a committed polygon is hit when the pointer is within tolerance of any of its
\* segments, the closing segment from the last vertex back to the first included
PolygonHitOnClosingSegment ==
  (lastOp = "hitTest" /\ call[1] \in Members("polygon"))
    => LET item == heap[call[1]]
           n == Len(item.points)
       IN (\E i \in 1..n : NearSegment(item, i, (i % n) + 1, call[2], tolerance))
            => ret = TRUE

\* C13: a line is hit exactly when the pointer is strictly nearer than the tolerance
\* to one of its segments, the distance being taken to the segment (to its endpoint
\* beyond an end); in particular a pointer on the midpoint of a segment is a hit
LineHitIsStrictAndClamped ==
  (lastOp = "hitTest" /\ call[1] \in Members("line"))
    => LET item == heap[call[1]]
           n == Len(item.points)
           p == call[2]
       IN /\ ret <=> \E i \in 1..(n - 1) : NearSegment(item, i, i + 1, p, tolerance)
          /\ \A i \in 1..(n - 1) :
               LET a == LatLngToScreen(item.points[i])
                   b == LatLngToScreen(item.points[i + 1])
               IN (2 * p.x = a.x + b.x /\ 2 * p.y = a.y + b.y) => ret = TRUE

\* C13 happens: the pointer lies beyond the end of a line's segment, at exactly the
\* tolerance from that endpoint and no nearer to any segment, and the test said no
LineMissedAtExactTolerance ==
  /\ lastOp = "hitTest"
  /\ call[1] \in Members("line")
  /\ ret = FALSE
  /\ LET item == heap[call[1]]
         n == Len(item.points)
         p == call[2]
         b == LatLngToScreen(item.points[n])
     IN /\ n = 2
        /\ p.x > b.x /\ p.y = b.y
        /\ (p.x - b.x) = tolerance

-----------------------------------------------------------------------------
(* Properties of the moving and deleting session (SpecMove) *)

\* the coordinates of an entity: its vertices in order, its center, or its position
Coords(o) ==
  IF Has(o, "points") THEN [i \in 1..Len(o.points) |-> <<o.points[i].lat, o.points[i].lng>>]
  ELSE IF Has(o, "center") THEN << <<o.center.lat, o.center.lng>> >>
  ELSE << <<o.lat, o.lng>> >>

\* coordinates cs translated by (dLat, dLng)
Translated(cs, dLat, dLng) ==
  [i \in 1..Len(cs) |-> <<cs[i][1] + dLat, cs[i][2] + dLng>>]

\* the delta of a drag: its latest pointer position minus its pointer-down position
DLat(d) == d.last.lat - d.start.lat
DLng(d) == d.last.lng - d.start.lng

\* C14: from a pointer-down that hit entity E at S on, whatever pointer-moves came
\* since, the coordinates of E are the ones it had at the pointer-down plus (P - S),
\* P the latest pointer position given to the Move tool
DragFollowsPointer ==
  (drag.hit # NoObj)
    => Coords(heap[drag.hit]) = Translated(Coords(drag.at), DLat(drag), DLng(drag))

\* C14 happens: a drag of a line is under way, the pointer away from where it went
\* down, and the line has followed it
DragMovedLine ==
  /\ drag.hit # NoObj
  /\ lastOp = "mousemove"
  /\ GetActive = "move"
  /\ drag.last # drag.start
  /\ Has(heap[drag.hit], "points")
  /\ heap[drag.hit] # drag.at

Unplaced(o) ==
  IF Has(o, "points")
    THEN [o EXCEPT !.points = [i \in 1..Len(o.points) |->
                                 [o.points[i] EXCEPT !.lat = 0, !.lng = 0]]]
  ELSE IF Has(o, "center") THEN [o EXCEPT !.center = [lat |-> 0, lng |-> 0]]
  ELSE [o EXCEPT !.lat = 0, !.lng = 0]

\* C16: a pointer-move of a drag that hit E changes nothing but coordinates of E:
\* everything else about E is kept, all its coordinates shift by one same delta, every
\* collection keeps its entities in place and no other entity changes
MoveChangesOnlyCoordinates ==
  [][ (lastOp' = "mousemove" /\ GetActive = "move" /\ drag.hit # NoObj)
        => LET e == drag.hit
               was == Coords(heap[e])
               now == Coords(heap'[e])
           IN /\ items' = items
              /\ Len(heap') = Len(heap)
              /\ \A r \in 1..Len(heap) : r # e => heap'[r] = heap[r]
              /\ Unplaced(heap'[e]) = Unplaced(heap[e])
              /\ Len(now) = Len(was)
              /\ \A i \in 1..Len(was) :
                   /\ now[i][1] - was[i][1] = now[1][1] - was[1][1]
                   /\ now[i][2] - was[i][2] = now[1][2] - was[1][2] ]_vars

\* C16 happens: a sector has been dragged away beside another entity
SectorDraggedBesideAnother ==
  /\ lastOp = "mousemove"
  /\ GetActive = "move"
  /\ drag.hit # NoObj
  /\ Has(heap[drag.hit], "center")
  /\ heap[drag.hit] # drag.at
  /\ Unplaced(heap[drag.hit]) = Unplaced(drag.at)
  /\ Len(heap) = 2
  /\ \E t \in EntityTools : Len(items[t]) = 1 /\ items[t][1] # drag.hit

\* C17: after any pointer-up the Move tool holds no target, no origin and no start,
\* whatever tool switches came between the pointer events
PointerUpEndsMove ==
  (lastOp = "mouseup")
    => moveTarget = NoObj /\ moveOrigin = NoCoord /\ moveStart = NoCoord

\* list without its k-th element
Without(list, k) == SubSeq(list, 1, k - 1) \o SubSeq(list, k + 1, Len(list))

\* C18: a Delete click that hits an entity removes that entity alone from its
\* collection, the others keeping their order, and changes no other collection; a
\* Delete click that hits nothing changes no collection; neither raises an error
DeleteRemovesExactlyOne ==
  [][ \A p \in Pointers :
        (lastOp' = "click" /\ GetActive = "delete" /\ OnClick(p))
          => LET scan == ScanOrder(PickTools)
                 hits == Passing(scan, LatLngToScreen(p))
             IN /\ threw' = FALSE
                /\ alerts' = <<>>
                /\ heap' = heap
                /\ IF hits = {} THEN items' = items
                   ELSE LET e == scan[CHOOSE i \in hits : \A j \in hits : i <= j]
                        IN \E t \in EntityTools :
                             \E k \in 1..Len(items[t]) :
                               /\ items[t][k] = e
                               /\ items'[t] = Without(items[t], k)
                               /\ Len(items'[t]) = Len(items[t]) - 1
                               /\ \A u \in EntityTools \ {t} : items'[u] = items[u] ]_vars

\* C18 happens: of two entities of one collection a Delete click has removed the
\* first, and the second is what the collection holds
DeleteLeftTheSecond ==
  /\ lastOp = "click"
  /\ GetActive = "delete"
  /\ Len(heap) = 2
  /\ heap[1].color = heap[2].color
  /\ \E t \in EntityTools :
       /\ items[t] = <<2>>
       /\ \A u \in EntityTools \ {t} : items[u] = <<>>
       /\ ~HitTest(heap[2], LatLngToScreen(LatLng(0, 0)))

\* C19: after a Move pointer-down that hit nothing, the pointer-moves and the
\* pointer-up that follow change no entity and no collection
MoveMissChangesNothing ==
  [][ (drag # NoDrag /\ drag.hit = NoObj /\ GetActive = "move"
       /\ lastOp' \in {"mousemove", "mouseup"})
        => heap' = heap /\ items' = items ]_vars

-----------------------------------------------------------------------------
(* Properties of the importing session (SpecImport) *)

\* the first registered tool whose class accepts f, NoName when there is none
Claimer(f) ==
  LET all == GetAllTools
      ks == {k \in 1..Len(all) : Accepts(all[k], f)}
  IN IF ks = {} THEN NoName ELSE all[CHOOSE k \in ks : \A j \in ks : k <= j]

\* the positions of the features some tool claims, in document order
IsClaimed(f) == Claimer(f) # NoName
ClaimedOf(fs) == SelectSeq(fs, IsClaimed)

\* C20: importing a valid document gives each feature to the first registered tool
\* that accepts it and to no other, passes over a feature no tool accepts and goes on
\* with the next, and reports as count the number of features claimed
ImportRoutesToFirstAccepting ==
  [][ \A json \in ImportDocs :
        (lastOp' = "import" /\ ValidateGeoJSON(json) /\ OnImport(json))
          => LET got == ClaimedOf(json.features)
                 ref(n) == Len(heap) + n
             IN /\ alerts' = <<>>
                /\ emitted' = <<[event |-> "import:complete", featureCount |-> Len(got)],
                                [event |-> "redraw"]>>
                /\ Len(heap') = Len(heap) + Len(got)
                /\ \A n \in 1..Len(got) :
                     /\ heap'[ref(n)] = FromGeoJSONObject(Claimer(got[n]), got[n])
                     /\ \A t \in EntityTools :
                          (\E i \in 1..Len(items'[t]) : items'[t][i] = ref(n))
                            <=> t = Claimer(got[n])
                /\ \A t \in EntityTools :
                     /\ SubSeq(items'[t], 1, Len(items[t])) = items[t]
                     /\ \A i \in (Len(items[t]) + 1)..(Len(items'[t]) - 1) :
                          items'[t][i] < items'[t][i + 1] ]_vars

\* C20 happens: a document of two features, the first one no tool accepts, has been
\* imported: one entity came in and the count reported is 1
ImportSkippedUnknownFirst ==
  /\ lastOp = "import"
  /\ Len(emitted) = 2
  /\ emitted[1].featureCount = 1
  /\ Len(heap) = 1
  /\ \E json \in ImportDocs :
       /\ Len(json.features) = 2
       /\ Claimer(json.features[1]) = NoName
       /\ Claimer(json.features[2]) # NoName
       /\ heap[1] = FromGeoJSONObject(Claimer(json.features[2]), json.features[2])
       /\ items[Claimer(json.features[2])] = <<1>>

\* C21: a document of the wrong top-level shape (not an object, a type other than
\* FeatureCollection, features not an array) is rejected whole: no collection, entity
\* or draft changes, one failure is reported and import:complete is not emitted
MisshapenDocumentRejected ==
  [][ \A json \in ImportDocs :
        (lastOp' = "import" /\ OnImport(json)
         /\ ~(json.isObject /\ json.type = "FeatureCollection" /\ json.featuresIsArray))
          => /\ items' = items
             /\ heap' = heap
             /\ draft' = draft
             /\ Len(alerts') = 1
             /\ \A i \in 1..Len(emitted') : emitted'[i].event # "import:complete" ]_vars

\* C21 happens: an import has been refused while a collection holds an entity
RefusedWithEntitiesKept ==
  /\ lastOp = "import"
  /\ alerts = <<"Invalid GeoJSON format">>
  /\ emitted = <<>>
  /\ \E t \in EntityTools : items[t] # <<>>

-----------------------------------------------------------------------------
(* Properties of the exporting session (SpecExport) *)

\* the entities of tool t, in collection order, in the heap h with collections its
EntitiesOf(h, its, t) == [i \in 1..Len(its[t]) |-> h[its[t][i]]]

\* C22: importing the exported document into fresh tool instances reproduces, tool by
\* tool and in order, entities with the same field values, elevations included
RoundTripReproduces ==
  (lastOp = "export" /\ alerts = <<>>)
    => LET r == ImportFrom(ret.features, 1, <<>>, [t \in EntityTools |-> <<>>], 0)
       IN /\ ~r.threw
          /\ \A t \in EntityTools :
               EntitiesOf(r.heap, r.items, t) = EntitiesOf(heap, items, t)

-----------------------------------------------------------------------------
(* Properties of elevation lookups *)

\* the heap h after e has been written into the entity or vertex that issued req
WrittenToRequester(h, req, e) ==
  IF req.kind = "vertex"
    THEN [h EXCEPT ![req.obj].points[req.idx].elev = e]
    ELSE [h EXCEPT ![req.obj].elev = e]

\* C23: when a lookup resolves, its value is written into the entity or vertex that
\* requested it and into no other entity or draft
LookupLandsOnRequester ==
  [][ \A i \in 1..Len(pending), e \in ElevResults :
        (lastOp' = "resolve" /\ ResolveElevation(i, e))
          => heap' = WrittenToRequester(heap, pending[i], e) ]_vars

\* entity o has a lookup out
PendingFor(o) == \E i \in 1..Len(pending) : pending[i].obj = o

\* C24: a failed lookup leaves the requester's elevation null and raises nothing; a
\* click of the Points tool puts the point into the collection in that same step, the
\* lookup still out; a drag moves, and a Delete click removes, an entity whose lookup
\* is still out
FailedLookupIsHarmless ==
  [][ /\ \A i \in 1..Len(pending) :
           (lastOp' = "resolve" /\ ResolveElevation(i, NullElev))
             => /\ heap'[pending[i].obj].elev = NullElev
                /\ items' = items
                /\ threw' = FALSE
                /\ alerts' = <<>>
      /\ \A p \in Pointers :
           (lastOp' = "click" /\ GetActive = "points" /\ OnClick(p))
             => /\ items'["points"] = Append(items["points"], Len(heap) + 1)
                /\ Coords(heap'[Len(heap) + 1]) = << <<p.lat, p.lng>> >>
                /\ heap'[Len(heap) + 1].elev = NullElev
                /\ Len(pending') = Len(pending) + 1
                /\ pending'[Len(pending')].obj = Len(heap) + 1
      /\ \A p \in Pointers :
           (lastOp' = "mousemove" /\ GetActive = "move" /\ moveTarget # NoObj
            /\ PendingFor(moveTarget) /\ OnMouseMove(p))
             => Coords(heap'[moveTarget]) =
                  Translated(Coords(moveOrigin), p.lat - moveStart.lat,
                             p.lng - moveStart.lng)
      /\ \A p \in Pointers :
           (lastOp' = "click" /\ GetActive = "delete" /\ OnClick(p))
             => LET scan == ScanOrder(PickTools)
                    hits == Passing(scan, LatLngToScreen(p))
                IN hits # {}
                     => LET e == scan[CHOOSE i \in hits : \A j \in hits : i <= j]
                        IN PendingFor(e)
                             => /\ \A k \in 1..Len(items'["points"]) :
                                     items'["points"][k] # e
                                /\ Len(items'["points"]) = Len(items["points"]) - 1
                                /\ pending' = pending ]_vars

\* C24 happens: the one point there is was dragged away while its lookup was out, and
\* the lookup has now failed
MovedThenLookupFailed ==
  /\ lastOp = "resolve"
  /\ pending = <<>>
  /\ Len(heap) = 1
  /\ items["points"] = <<1>>
  /\ lastDrag.hit = 1
  /\ DLng(lastDrag) # 0
  /\ Coords(heap[1]) # Coords(lastDrag.at)
  /\ heap[1].elev = NullElev

-----------------------------------------------------------------------------
(* Properties of the restyling session (SpecStyle) *)

\* C25: a StyleManager update (updateProperty, setStyle, reset, resetAll) changes no
\* attribute of any existing draft or entity, and a draft or entity created afterwards
\* carries the values the style of its kind holds then
StylesAreCopied ==
  [][ /\ (lastOp' \in {"option", "setStyle", "reset", "resetOptions"})
           => heap' = heap /\ items' = items /\ draft' = draft
      /\ (lastOp' = "click" /\ Len(heap') = Len(heap) + 1 /\ GetActive \in EntityTools)
           => \A f \in DOMAIN styles[GetActive] :
                heap'[Len(heap')][f] = styles[GetActive][f] ]_vars

\* C25 happens: a point placed before the colour changed keeps the old colour, the
\* point placed after it carries the new one
RestyledBetweenTwoPoints ==
  /\ lastOp = "click"
  /\ items["points"] = <<1, 2>>
  /\ heap[1].color = "black"
  /\ heap[2].color = "red"
  /\ styles["points"].color = "red"

-----------------------------------------------------------------------------
(* Properties of the sector session (SpecSector), continued *)

\* C26: with a Sector draft pending, a pointer-move to P other than the center leaves
\* the draft with radius distance(center, P), bearing bearing(center, P) and the
\* center it had; with no draft pending a pointer-move changes nothing in the tool
SectorDraftFollowsPointer ==
  [][ \A p \in Pointers :
        (lastOp' = "mousemove" /\ GetActive = "sector" /\ OnMouseMove(p))
          => LET d == draft["sector"] IN
             IF d = NoObj
               THEN heap' = heap /\ items' = items /\ draft' = draft
               ELSE (LatLng(heap[d].center.lat, heap[d].center.lng) # p)
                      => /\ heap'[d].radius = Distance(heap[d].center, p)
                         /\ heap'[d].bearing = Bearing(heap[d].center, p)
                         /\ heap'[d].center = heap[d].center
                         /\ draft' = draft
                         /\ items' = items ]_vars

\* C26 happens: the pointer has moved away from the center of a pending draft
SectorDraftMeasured ==
  /\ lastOp = "mousemove"
  /\ GetActive = "sector"
  /\ draft["sector"] # NoObj
  /\ LET o == heap[draft["sector"]]
     IN /\ o.center = LatLng(0, 0)
        /\ o.radius = Distance(LatLng(0, 0), LatLng(0, 1))
        /\ o.bearing = Bearing(LatLng(0, 0), LatLng(0, 1))

-----------------------------------------------------------------------------
(* Properties of GeoUtils.pointInPolygon (SpecGeometry) *)

\* the vertex list ring started k places later
Rotated(ring, k) ==
  [i \in 1..Len(ring) |-> ring[((i + k - 1) % Len(ring)) + 1]]

\* twice the signed area of the triangle a, b, c (x = lng, y = lat)
Turn(a, b, c) ==
  (b.lng - a.lng) * (c.lat - a.lat) - (b.lat - a.lat) * (c.lng - a.lng)

\* a convex polygon: at least 3 vertices, no two alike, every vertex on one side of
\* (or on) every edge, and not all on one line
Convex(ring) ==
  LET n == Len(ring)
      nxt(i) == (i % n) + 1
  IN /\ n >= 3
     /\ \A i, j \in 1..n : i # j => ring[i] # ring[j]
     /\ \/ \A i, k \in 1..n : Turn(ring[i], ring[nxt(i)], ring[k]) >= 0
        \/ \A i, k \in 1..n : Turn(ring[i], ring[nxt(i)], ring[k]) <= 0
     /\ \E i, k \in 1..n : Turn(ring[i], ring[nxt(i)], ring[k]) # 0

\* p lies strictly outside the bounding box of ring
OutsideBox(p, ring) ==
  \/ \A i \in 1..Len(ring) : p.lat < ring[i].lat
  \/ \A i \in 1..Len(ring) : p.lat > ring[i].lat
  \/ \A i \in 1..Len(ring) : p.lng < ring[i].lng
  \/ \A i \in 1..Len(ring) : p.lng > ring[i].lng

\* C27: pointInPolygon gives the same result for every cyclic rotation of the vertex
\* list, and false for a point strictly outside the bounding box of a convex polygon
PointInPolygonRotationAndBox ==
  (lastOp = "pointInPolygon")
    => /\ \A k \in 1..Len(call[2]) :
            PointInPolygon(call[1], Rotated(call[2], k)) = ret
       /\ (Convex(call[2]) /\ OutsideBox(call[1], call[2])) => ret = FALSE

\* C27 happens: a point inside a convex quadrilateral is found inside, as it is for
\* the list started one vertex later
InsideConvexQuadrilateral ==
  /\ lastOp = "pointInPolygon"
  /\ Len(call[2]) = 4
  /\ Convex(call[2])
  /\ call[1] = LatLng(1, 1)
  /\ ret = TRUE
  /\ PointInPolygon(call[1], Rotated(call[2], 1)) = TRUE

\* a point west of a convex triangle's bounding box, at a latitude the triangle spans,
\* is found outside
WestOfConvexTriangle ==
  /\ lastOp = "pointInPolygon"
  /\ Len(call[2]) = 3
  /\ Convex(call[2])
  /\ call[1] = LatLng(1, 0 - 1)
  /\ \E i, j \in 1..3 : call[2][i].lat > 1 /\ call[2][j].lat < 1
  /\ ret = FALSE

-----------------------------------------------------------------------------
(* Properties of the keyboard session (SpecKeys) *)

\* C28: with the focus outside an input field, Ctrl+Shift+Delete, confirmed, empties
\* every collection
CtrlShiftDeleteClearsAll ==
  [][ OnKeyDown([key |-> "delete", ctrl |-> TRUE, shift |-> TRUE, typing |-> FALSE], TRUE)
        => \A t \in EntityTools : items'[t] = <<>> ]_vars

-----------------------------------------------------------------------------
(* Properties of the session of drawing beside committed entities (SpecFrame) *)

\* the entities the collections its hold
Committed(its) == UNION {{its[t][k] : k \in 1..Len(its[t])} : t \in EntityTools}

\* C29: a pointer-move, a cancel, a setAngle and an add that starts or extends a draft
\* leave every collection and every field of every committed entity as they were, and
\* the coordinates of a committed entity change only by a pointer-move of the Move tool
EntityToolsLeaveCommittedAlone ==
  [][ /\ (\/ lastOp' = "mousemove" /\ GetActive \in EntityTools
          \/ lastOp' = "cancel"
          \/ lastOp' = "setAngle"
          \/ lastOp' = "click" /\ GetActive \in {"line", "polygon", "text"}
          \/ lastOp' = "click" /\ GetActive = "sector" /\ draft["sector"] = NoObj)
           => /\ items' = items
              /\ \A r \in Committed(items) : heap'[r] = heap[r]
      /\ \A r \in Committed(items) \cap Committed(items') :
           Coords(heap'[r]) # Coords(heap[r])
             => lastOp' = "mousemove" /\ GetActive = "move" /\ moveTarget = r ]_vars

\* C29 happens: beside a committed sector a draft is pending, and the angle typed has
\* gone into the draft alone
AngleWentIntoDraftOnly ==
  /\ lastOp = "setAngle"
  /\ items["sector"] = <<1>>
  /\ draft["sector"] = 2
  /\ heap[1].angle = 60
  /\ heap[2].angle = 90

-----------------------------------------------------------------------------
(* Properties of the life of a committed entity *)

\* the elements of list that belong to set, in the order list has them
Among(list, set) ==
  LET In(x) == x \in set IN SelectSeq(list, In)

-----------------------------------------------------------------------------
(* Properties of the debounced lookup (SpecDebounce) *)

\* the entries of the history that say op about the call with callback cb
Entries(op, cb) == {k \in 1..Len(log) : log[k].op = op /\ log[k].cb = cb}

\* C31: a call followed by another less than DebounceDelay later issues no lookup and
\* its callback never runs; a call's coordinate is looked up at most once, and not
\* before DebounceDelay has passed since the call; a callback runs only after its
\* call's lookup, at most once, and with an elevation that is not null
DebounceThrottlesBurst ==
  /\ \A c \in CallsMade, d \in CallsMade :
       (c < d /\ log[d].at - log[c].at < DebounceDelay)
         => Entries("lookup", log[c].cb) = {} /\ Entries("callback", log[c].cb) = {}
  /\ \A c \in CallsMade :
       /\ Cardinality(Entries("lookup", log[c].cb)) <= 1
       /\ Cardinality(Entries("callback", log[c].cb)) <= 1
       /\ \A k \in Entries("lookup", log[c].cb) :
            /\ k > c
            /\ log[k].at >= log[c].at + DebounceDelay
            /\ log[k].lat = log[c].lat /\ log[k].lng = log[c].lng
            /\ \A d \in CallsMade : ~(c < d /\ d < k)
       /\ \A k \in Entries("callback", log[c].cb) :
            /\ log[k].elev # NullElev
            /\ \E j \in Entries("lookup", log[c].cb) : j < k

\* C31 happens: of two calls 100 ms apart the second alone was looked up, 300 ms after
\* it was made, and its callback has run
BurstOfTwoLookedUpOnce ==
  /\ Len(log) = 4
  /\ log[1].op = "call" /\ log[2].op = "call"
  /\ log[2].at - log[1].at = 100
  /\ log[1].lng # log[2].lng
  /\ log[3].op = "lookup" /\ log[3].cb = 2 /\ log[3].at = log[2].at + DebounceDelay
  /\ log[4].op = "callback" /\ log[4].cb = 2

-----------------------------------------------------------------------------
(* Properties of GeoUtils.sectorCoordinates (SpecWedge) *)

\* the point projected from the sector's center by its radius at the doubled
\* bearing b2, as sectorCoordinates lists it
Projected(sector, b2) ==
  <<"project", sector.center.lat, sector.center.lng, sector.radius, b2>>

\* C32: the ring starts and ends at the center, its first arc vertex lies at
\* bearing - angle/2 and its last arc vertex at bearing + angle/2
WedgeCoversWholeSpan ==
  (lastOp = "sectorCoordinates")
    => LET sector == call[1]
           n == Len(ret)
       IN /\ n >= 3
          /\ ret[1] = <<sector.center.lng, sector.center.lat>>
          /\ ret[n] = <<sector.center.lng, sector.center.lat>>
          /\ ret[2] = Projected(sector, 2 * sector.bearing - sector.angle)
          /\ ret[n - 1] = Projected(sector, 2 * sector.bearing + sector.angle)

\* the same for angles that are multiples of the 3-degree step
WedgeCoversSpanOfStepMultiples ==
  (lastOp = "sectorCoordinates" /\ call[1].angle % 3 = 0) => WedgeCoversWholeSpan

-----------------------------------------------------------------------------
(* Properties of the EventBus (SpecBus) *)

\* C33: an emit invokes every listener subscribed when it starts exactly once, in
\* subscription order, and a once() listener is invoked for at most one emit
EmitReachesEverySubscriber ==
  /\ \A k \in Emits : log[k].ran = log[k].before
  /\ \A s \in Subscribed :
       log[s].once
         => Cardinality({k \in Emits : \E i \in 1..Len(log[k].ran) :
                                          log[k].ran[i] = log[s].id}) <= 1

\* the same with no once() listener subscribed when the emit starts
EmitReachesEveryPlainSubscriber ==
  \A k \in Emits :
    (\A i \in 1..Len(log[k].before) :
        \A s \in Subscribed : log[s].id = log[k].before[i] => ~log[s].once)
      => log[k].ran = log[k].before

-----------------------------------------------------------------------------
(* Properties of the session of choosing modes (SpecModes) *)

\* C34: after any sequence of setMode calls, with known or unknown names, the current
\* mode is the name of the registry's active tool
ModeIsActiveTool == currentMode = activeTool

\* the same after a setMode with a registered name
KnownModeIsActiveTool ==
  (lastOp = "setMode" /\ \E i \in 1..Len(tools) : tools[i].name = currentMode)
    => currentMode = activeTool

-----------------------------------------------------------------------------
(* Properties of the drawing session (SpecDraw), continued *)

\* C35: in the Polyline and Polygon tools a hover coordinate exists only while a
\* draft exists
HoverOnlyWithDraft ==
  \A t \in {"line", "polygon"} : hover[t] # NoCoord => draft[t] # NoObj

\* the same after a finish of the active tool
HoverGoneAfterFinish ==
  (lastOp = "finish" /\ GetActive \in {"line", "polygon"})
    => hover[GetActive] = NoCoord /\ draft[GetActive] = NoObj

-----------------------------------------------------------------------------
(* Properties of the session of late lookups (SpecLate) *)

\* C36: the resolution of a lookup, whenever it arrives, leaves every collection and
\* every draft as they were, allocates nothing and changes no coordinate
ResolutionWritesElevationOnly ==
  [][ (lastOp' = "resolve")
        => /\ items' = items
           /\ draft' = draft
           /\ hover' = hover
           /\ Len(heap') = Len(heap)
           /\ \A r \in 1..Len(heap) : Coords(heap'[r]) = Coords(heap[r]) ]_vars

\* C36 happens: the lookup of a point resolved after the point was deleted, with
\* another point still in the collection
ResolvedAfterDelete ==
  /\ lastOp = "resolve"
  /\ GetActive = "delete"
  /\ Len(heap) = 2
  /\ Has(heap[1], "lat") /\ Has(heap[2], "lat")
  /\ items["points"] = <<2>>
  /\ heap[1].elev = <<7>>

\* C37: a Move drag (pointer down, moved, up) and a Delete click leave every tool's
\* draft in place and unchanged: the same draft reference, the same object
DraftsSurviveMoveAndDelete ==
  [][ (\/ lastOp' \in {"mousedown", "mousemove", "mouseup"} /\ GetActive = "move"
       \/ lastOp' = "click" /\ GetActive = "delete")
        => /\ draft' = draft
           /\ \A t \in EntityTools :
                draft[t] # NoObj => heap'[draft[t]] = heap[draft[t]] ]_vars

\* C37 happens: a committed entity is being dragged by a pointer that went down
\* exactly on the first vertex, the center or the anchor of a pending draft
DraggedPastDraft ==
  /\ lastOp = "mousemove"
  /\ GetActive = "move"
  /\ drag # NoDrag
  /\ drag.hit # NoObj
  /\ heap[drag.hit] # drag.at
  /\ \E t \in EntityTools :
       /\ draft[t] # NoObj
       /\ Coords(heap[draft[t]])[1] = <<drag.start.lat, drag.start.lng>>

\* C38: at most one of the five entity tools accepts a feature, whatever its geometry
\* type and properties.type, so the tool the import finds for it is the same in
\* every order of the tools: the one that accepts it, or none
AcceptsAreDisjoint ==
  (lastOp = "findTool")
    => LET f == call[1]
           takers == {t \in EntityTools : Accepts(t, f)}
       IN /\ Cardinality(takers) <= 1
          /\ (takers = {}) <=> (ret = NoName)
          /\ \A t \in takers : ret = t

\* C38 happens: a sector feature has found SectorTool although PolygonTool stands
\* before it in the list
SectorFoundBehindPolygon ==
  /\ lastOp = "findTool"
  /\ ret = "sector"
  /\ \E i, j \in DOMAIN call[2] :
       i < j /\ call[2][i] = "polygon" /\ call[2][j] = "sector"

\* C39: an import that ends in a reported failure has added no feature of its document
\* to any collection
FailedImportAddsNothing ==
  [][ (lastOp' = "import" /\ alerts' # <<>>) => items' = items ]_vars

\* an import reported as failed whose document was refused before any feature was
\* applied, or whose first accepted feature failed, adds nothing
RefusedImportAddsNothing ==
  [][ \A json \in FailingDocs :
        (lastOp' = "import" /\ OnImport(json) /\ alerts' # <<>>
         /\ (~ValidateGeoJSON(json) \/ FromGeoJSONThrows(FirstAccepting(GetAllTools, json.features[1], 1), json.features[1])))
          => items' = items ]_vars

====
